---------------------------- MODULE Spec2Model ----------------------------
(***************************************************************************)
(* PVC-V2: the PAM serial driver (hardware/pam.py), the shared machine     *)
(* state (state.py), the command processor with its single worker thread   *)
(* (ble/command_processor.py) and the BLE write handler                    *)
(* (ble/gatt_server.py), as a state machine.                               *)
(*                                                                         *)
(* Time is abstracted: a sleep is a point where other threads may run, a   *)
(* timeout is a step that may be taken whenever what it waits for has not  *)
(* arrived.  Python values are tagged records (PyNone, PyInt, PyStr, PyFloat), a     *)
(* serial reply is a sequence of characters.                               *)
(***************************************************************************)
EXTENDS Integers, Sequences, FiniteSets, TLC

(***************************************************************************)
(* Bounds of the model.                                                    *)
(***************************************************************************)
\* submit calls made in one behaviour of Spec
MaxCmds == 2
\* submit calls made in one behaviour of SpecStall (more than the queue holds)
MaxStallCmds == 53
\* direct invocations made in one behaviour of SpecDirect
MaxDirectCalls == 2
\* BLE writes (and so spawned threads) in one behaviour of SpecBle
MaxBleWrites == 2
\* the handler invocations of SpecModes
MaxModeCalls == 3
\* the get_ready_status calls of SpecReady
MaxReadyCalls == 1

(***************************************************************************)
(* Python values.                                                          *)
(***************************************************************************)
PyNone == [kind |-> "none"]
PyInt(n) == [kind |-> "int", v |-> n]
\* a str: its characters
PyStr(s) == [kind |-> "str", v |-> s]
IsStr(x) == x.kind = "str"
\* a float written in decimal: sign, integer part, fraction digits without
\* trailing zeros
PyFloat(neg, ip, frac) == [kind |-> "float", neg |-> neg, ip |-> ip, frac |-> frac]

IsInt(x) == x.kind = "int"
IsNum(x) == x.kind \in {"int", "float"}

\* float(n) of an integer
FloatOfInt(n) == IF n < 0 THEN PyFloat(TRUE, -n, <<>>) ELSE PyFloat(FALSE, n, <<>>)

\* float(x) of an int or a float
ToFloat(x) == IF x.kind = "int" THEN FloatOfInt(x.v) ELSE x

\* Python's == on two values: numbers compare by value across int and float
PyEq(a, b) ==
    IF IsNum(a) /\ IsNum(b)
    THEN LET fa == ToFloat(a)
             fb == ToFloat(b)
         IN  /\ fa.ip = fb.ip
             /\ fa.frac = fb.frac
             /\ (fa.neg = fb.neg \/ (fa.ip = 0 /\ fa.frac = <<>>))
    ELSE a = b

\* int(x) of a float: truncation towards zero
IntOfFloat(f) == IF f.neg THEN -f.ip ELSE f.ip

(***************************************************************************)
(* Text: a reply is a sequence of one-character strings.                   *)
(***************************************************************************)
DigitChars == <<"0", "1", "2", "3", "4", "5", "6", "7", "8", "9">>
WhiteSpace == {" ", "\r", "\n", "\t"}

IsDigit(c) == \E i \in 1..10 : DigitChars[i] = c
DigitVal(c) == (CHOOSE i \in 1..10 : DigitChars[i] = c) - 1

RECURSIVE NatText(_)
NatText(n) ==
    IF n < 10 THEN <<DigitChars[n + 1]>>
    ELSE Append(NatText(n \div 10), DigitChars[(n % 10) + 1])

\* the decimal text of an integer, as the device (and an f-string) prints it
IntText(n) == IF n < 0 THEN <<"-">> \o NatText(-n) ELSE NatText(n)

Contains(s, c) == \E i \in 1..Len(s) : s[i] = c

\* resp.replace(">", "")
DropPrompt(s) == SelectSeq(s, LAMBDA c : c # ">")

\* str.split(): the maximal runs of non-whitespace characters
RECURSIVE SplitFrom(_, _, _)
SplitFrom(s, i, tok) ==
    IF i > Len(s)
    THEN IF tok = <<>> THEN <<>> ELSE <<tok>>
    ELSE IF s[i] \in WhiteSpace
         THEN IF tok = <<>> THEN SplitFrom(s, i + 1, <<>>)
              ELSE <<tok>> \o SplitFrom(s, i + 1, <<>>)
         ELSE SplitFrom(s, i + 1, Append(tok, s[i]))

Split(s) == SplitFrom(s, 1, <<>>)

RECURSIVE DigitsVal(_)
DigitsVal(ds) ==
    IF ds = <<>> THEN 0
    ELSE 10 * DigitsVal(SubSeq(ds, 1, Len(ds) - 1)) + DigitVal(ds[Len(ds)])

RECURSIVE StripZeros(_)
StripZeros(ds) ==
    IF ds # <<>> /\ ds[Len(ds)] = "0"
    THEN StripZeros(SubSeq(ds, 1, Len(ds) - 1))
    ELSE ds

\* the token without its sign
Unsigned(tok) ==
    IF tok # <<>> /\ tok[1] \in {"-", "+"} THEN SubSeq(tok, 2, Len(tok)) ELSE tok

DotAt(u) == IF Contains(u, ".") THEN CHOOSE i \in 1..Len(u) : u[i] = "." ELSE 0

IntDigits(u) == IF DotAt(u) = 0 THEN u ELSE SubSeq(u, 1, DotAt(u) - 1)
FracDigits(u) == IF DotAt(u) = 0 THEN <<>> ELSE SubSeq(u, DotAt(u) + 1, Len(u))

\* whether float(tok) succeeds: an optional sign, digits with at most one
\* point and at least one digit (the decimal literals; exponents, inf and
\* nan are outside the replies modelled)
ParsesAsFloat(tok) ==
    LET u == Unsigned(tok)
    IN  /\ Len(IntDigits(u)) + Len(FracDigits(u)) > 0
        /\ \A i \in 1..Len(IntDigits(u)) : IsDigit(IntDigits(u)[i])
        /\ \A i \in 1..Len(FracDigits(u)) : IsDigit(FracDigits(u)[i])

FloatOfText(tok) ==
    LET u == Unsigned(tok)
    IN  PyFloat(tok[1] = "-", DigitsVal(IntDigits(u)), StripZeros(FracDigits(u)))

RECURSIVE FirstNumber(_)
FirstNumber(toks) ==
    IF toks = <<>> THEN PyNone
    ELSE IF ParsesAsFloat(toks[1]) THEN FloatOfText(toks[1])
         ELSE FirstNumber(Tail(toks))

\* PAMController.extract_number
extract_number(resp) == FirstNumber(Split(DropPrompt(resp)))

\* PAMController.extract_mode
extract_mode(resp) ==
    IF Contains(resp, "V") THEN PyStr(<<"V">>)
    ELSE IF Contains(resp, "C") THEN PyStr(<<"C">>)
    ELSE PyNone

(***************************************************************************)
(* Threads.  The worker is the thread CommandProcessor.__init__ starts;    *)
(* a BLE thread is one that Characteristic.WriteValue spawns; the direct   *)
(* caller is a thread that invokes a handler or a driver method itself.    *)
(***************************************************************************)
WorkerThread == <<"worker">>
DirectThread == <<"direct">>
PollThread == <<"poll">>
BleThread(i) == <<"ble", i>>
BleThreads == {BleThread(i) : i \in 1..MaxBleWrites}
Threads == {WorkerThread, DirectThread, PollThread} \cup BleThreads

VARIABLES
    queue,        \* CommandProcessor.command_queue: the commands waiting
    running,      \* CommandProcessor.running
    call,         \* per submit call, in the order of the calls: what the caller is
                  \* doing and what submit returned
    respq,        \* per submit call: its private response_queue (unused unless it waits)
    started,      \* the ids of the commands in the order the worker began them
    h,            \* per thread: the frame of the handler it is running
    drv,          \* per thread: the frame of the multi-step driver method it is running
    verify_attr,  \* PAMController._verify_writes: "unset" until the setter runs
    sstate,       \* MachineState._data
    dev,          \* the registers of the PAM device
    log,          \* per thread: its operations on the serial link in the current invocation
    ncalls,       \* direct invocations made so far
    ble,          \* the attributes of the BLE characteristic
    poll,         \* main_loop: its position and its local variables
    ms,           \* MachineState._lock, and the threads inside update and get_all
    ser           \* SerialReconnect: its handle and the operation under way

procVars == <<queue, running, call, respq, started>>

\* the number the next submit call gets
nextId == Len(call) + 1
execVars == <<h, drv, verify_attr, sstate, dev, log>>
sideVars == <<poll, ms, ser>>
vars == <<queue, running, call, respq, started,
          h, drv, verify_attr, sstate, dev, log, ncalls, ble, poll, ms, ser>>

(***************************************************************************)
(* The PAM device behind the serial link, as the driver sees it: a command *)
(* is a name with an optional argument, a write changes a register, a read *)
(* prints one, and every reply ends with the prompt.                       *)
(***************************************************************************)
Prompt == <<"\r", "\n", ">">>

ReadCmd(name) == [name |-> name, arg |-> PyNone]
\* SAVE takes no argument and changes none of the registers modelled
SaveCmd == [name |-> "SAVE", arg |-> PyNone]
WriteCmd(name, arg) == [name |-> name, arg |-> arg]

DevApply(d, c) ==
    IF c.arg = PyNone THEN d
    ELSE CASE c.name = "FUNCTION" /\ c.arg \in {PyInt(195), PyInt(196)} ->
                  [d EXCEPT !.func = c.arg.v]
           [] c.name = "AINA" /\ c.arg \in {PyStr(<<"V">>), PyStr(<<"C">>)} ->
                  [d EXCEPT !.aina = c.arg.v[1]]
           [] c.name = "AINB" /\ c.arg \in {PyStr(<<"V">>), PyStr(<<"C">>)} ->
                  [d EXCEPT !.ainb = c.arg.v[1]]
           [] c.name = "CURRENT" /\ IsInt(c.arg) -> [d EXCEPT !.cur = c.arg.v]
           [] c.name = "CURRENT:A" /\ IsInt(c.arg) -> [d EXCEPT !.cura = c.arg.v]
           [] c.name = "CURRENT:B" /\ IsInt(c.arg) -> [d EXCEPT !.curb = c.arg.v]
           [] c.name = "MODE" /\ c.arg = PyStr(<<"S", "T", "D">>) -> [d EXCEPT !.exp = FALSE]
           [] OTHER -> d

DevReply(d, c) ==
    IF c.arg # PyNone THEN Prompt
    ELSE CASE c.name = "FUNCTION" -> IntText(d.func) \o Prompt
           [] c.name = "AINA" -> <<d.aina>> \o Prompt
           [] c.name = "AINB" -> <<d.ainb>> \o Prompt
           [] c.name = "CURRENT" -> IntText(d.cur) \o Prompt
           [] c.name = "CURRENT:A" -> IntText(d.cura) \o Prompt
           [] c.name = "CURRENT:B" -> IntText(d.curb) \o Prompt
           [] c.name = "RC:S" -> IntText(IF d.pin15 THEN 64 ELSE 0) \o Prompt
           [] c.name = "RX1:READYA" -> IntText(d.status) \o Prompt
           [] c.name = "MODE" -> (IF d.exp THEN <<"E", "X", "P">> ELSE <<"S", "T", "D">>)
                                   \o Prompt
           [] c.name \in {"W", "WA", "WB"} -> IntText(d.w) \o Prompt
           [] c.name \in {"IA", "IB"} -> IntText(d.i) \o Prompt
           [] OTHER -> Prompt

\* What one exchange can do: the device takes the command and answers, or,
\* on a link that loses traffic, the command is lost and nothing arrives
\* within the 200 ms.
Exchanges(d, c) ==
    { [dev |-> DevApply(d, c), reply |-> DevReply(DevApply(d, c), c)] }
    \cup (IF d.lossy THEN { [dev |-> d, reply |-> <<>>] } ELSE {})

DevInit ==
    { [func |-> f, aina |-> u, ainb |-> u, cur |-> 1000, cura |-> 1000,
       curb |-> 1000, pin15 |-> FALSE, lossy |-> TRUE, status |-> 0,
       exp |-> FALSE, w |-> 0, i |-> 0] : f \in {195, 196}, u \in {"V"} }

\* PAMController.cmd on the link: the input buffer is cleared, then the
\* command is written
CmdOps(c) == << <<"reset">>, <<"write", c>> >>
ResetOp == << <<"reset">> >>

Logged(t, ops) == [log EXCEPT ![t] = @ \o ops]

(***************************************************************************)
(* MachineState.                                                           *)
(***************************************************************************)
StateInit ==
    [ IN_TRANSITION |-> FALSE, FUNC |-> PyNone, WA |-> PyNone, WB |-> PyNone,
      IA |-> PyNone, IB |-> PyNone, MODE |-> PyNone, READY |-> PyNone,
      PIN15 |-> PyNone, PIN6 |-> PyNone, ENABLED_B |-> PyNone,
      CURRENT_A_STATUS |-> PyNone, CURRENT_B_STATUS |-> PyNone,
      CURRENT_STATUS |-> PyNone ]

\* MachineState.update(**kwargs): dict.update under the lock
update(s, kwargs) ==
    [k \in DOMAIN s \cup DOMAIN kwargs |->
        IF k \in DOMAIN kwargs THEN kwargs[k] ELSE s[k]]

\* MachineState.get(key): dict.get under the lock
get(s, key) == IF key \in DOMAIN s THEN s[key] ELSE PyNone

\* a snapshot that is the document as constructed, against which C16 is tested
get_all_stale(s) == StateInit

\* MachineState.get_all(): a copy of the dict
get_all(s) == s

\* MachineState.set_transition(in_transition)
set_transition(s, b) == [s EXCEPT !["IN_TRANSITION"] = b]

\* MachineState.is_in_transition()
is_in_transition(s) == s["IN_TRANSITION"]

(***************************************************************************)
(* Commands and results (command_processor.py).                            *)
(***************************************************************************)
\* queue.Queue(maxsize=50)
QueueMaxSize == 50

EmptyDict == [k \in {} |-> PyNone]

\* dict.get(key, default)
dict_get(d, key, default) == IF key \in DOMAIN d THEN d[key] ELSE default

\* Command(type, params, response_queue): the response queue of a waiting
\* submit is respq[id], a command of a non-waiting one carries None
Command(id, type, params, wait) ==
    [id |-> id, type |-> type, params |-> params, wait |-> wait]

NoCmd == Command(0, "none", EmptyDict, FALSE)

CommandResult(success, message, data) ==
    [success |-> success, message |-> message, data |-> data]

NoResult == CommandResult(FALSE, "", PyNone)

\* x in [a, b, ...]: Python compares with ==
PyIn(x, list) == \E y \in list : PyEq(x, y)

(***************************************************************************)
(* Frames: what a thread holds while it runs a handler or a driver method. *)
(***************************************************************************)
IdleFrame ==
    [pc |-> "idle", cmd |-> NoCmd, old_mode |-> PyNone, current_mode |-> PyNone,
     new_mode_a |-> PyNone, new_mode_b |-> PyNone, success_a |-> FALSE,
     result |-> NoResult]

DrvIdle ==
    [fn |-> "none", pc |-> "idle", new_mode |-> PyNone, unit |-> PyNone,
     channel |-> PyNone, value |-> PyNone, mode |-> PyNone, ret |-> FALSE,
     requested |-> PyNone]

\* the handler returns `result`
Return(f, result) == [f EXCEPT !.pc = "ret", !.result = result]

\* the driver method returns `ret`
DrvReturn(d, ret) == [d EXCEPT !.pc = "done", !.ret = ret]

DrvBusy(t) == drv[t].pc \notin {"idle", "done"}

\* the methods that change the device: FUNCTION, AIN, CURRENT and SAVE writes
MutatingFns == {"change_pam_function", "change_pam_ain_mode", "set_current_value",
                "save_pam_settings"}

(***************************************************************************)
(* CommandProcessor.submit                                                 *)
(***************************************************************************)
\* a put that ignores maxsize, against which the bound is tested
PutUnbounded(q, cmd) == Append(q, cmd)

\* what submit does with the queue: put(cmd, block=False)
Put(q, cmd) == IF Len(q) >= QueueMaxSize THEN q ELSE Append(q, cmd)

submit(type, params, wait) ==
    LET id == nextId
        full == Len(queue) >= QueueMaxSize
    IN  /\ queue' = Put(queue, Command(id, type, params, wait))
        /\ call' = Append(call,
              [ wait |-> wait,
                status |-> IF ~full /\ wait THEN "waiting" ELSE "returned",
                result |-> IF full THEN CommandResult(FALSE, "Command queue full", PyNone)
                           ELSE IF wait THEN NoResult
                           ELSE CommandResult(TRUE, "Command queued", PyNone) ])
        /\ respq' = Append(respq, <<>>)
        /\ UNCHANGED <<running, started, execVars, ncalls, ble, sideVars>>

\* response_queue.get(timeout=5.0) returns the result the worker put
SubmitGet(id) ==
    /\ id \in DOMAIN call
    /\ call[id].status = "waiting"
    /\ respq[id] # <<>>
    /\ call' = [call EXCEPT ![id].status = "returned", ![id].result = Head(respq[id])]
    /\ respq' = [respq EXCEPT ![id] = Tail(@)]
    /\ UNCHANGED <<queue, running, started, execVars, ncalls, ble, sideVars>>

\* a timeout that cancels the command, against which C6 is tested
AfterTimeoutCancels(q, id) == SelectSeq(q, LAMBDA c : c.id # id)

\* what a timed-out wait does with the queue: nothing, the command stays
AfterTimeout(q, id) == q

\* a wait that reports a timeout as a success, against which C5 is tested
TimedOutAsQueued == CommandResult(TRUE, "Command queued", PyNone)

\* except queue.Empty: return CommandResult(False, "Command timeout")
TimedOut == CommandResult(FALSE, "Command timeout", PyNone)

\* response_queue.get(timeout=5.0) raises queue.Empty: nothing arrived in time
SubmitTimeout(id) ==
    /\ id \in DOMAIN call
    /\ call[id].status = "waiting"
    /\ respq[id] = <<>>
    /\ call' = [call EXCEPT ![id].status = "returned",
                            ![id].result = TimedOut]
    /\ queue' = AfterTimeout(queue, id)
    /\ UNCHANGED <<running, respq, started, execVars, ncalls, ble, sideVars>>

(***************************************************************************)
(* PAMController: the multi-step methods (hardware/pam.py).  A call does   *)
(* the method's validation, which touches nothing, and leaves the frame at *)
(* the method's first exchange with the device; each step is one exchange. *)
(***************************************************************************)
UnitV == PyStr(<<"V">>)
UnitC == PyStr(<<"C">>)
ChanA == PyStr(<<"A">>)
ChanB == PyStr(<<"B">>)

\* str.upper() on the letters the model uses
UpperChar(c) == CASE c = "a" -> "A" [] c = "b" -> "B" [] c = "v" -> "V"
                  [] c = "c" -> "C" [] OTHER -> c
upper(x) == PyStr([i \in 1..Len(x.v) |-> UpperChar(x.v[i])])

\* str(x) of an int, a str or None
str(x) == CASE x.kind = "int" -> PyStr(IntText(x.v))
            [] x.kind = "str" -> x
            [] OTHER -> PyStr(<<"N", "o", "n", "e">>)

\* whether int(x) succeeds, and its value: an int, a float, or a str of
\* digits with an optional sign
IntParses(x) ==
    \/ x.kind \in {"int", "float"}
    \/ /\ x.kind = "str"
       /\ Unsigned(x.v) # <<>>
       /\ \A i \in 1..Len(Unsigned(x.v)) : IsDigit(Unsigned(x.v)[i])
int(x) ==
    CASE x.kind = "int" -> x.v
      [] x.kind = "float" -> IntOfFloat(x)
      [] OTHER -> IF x.v[1] = "-" THEN -DigitsVal(Unsigned(x.v))
                  ELSE DigitsVal(Unsigned(x.v))

\* "AINA" if channel.upper() == 'A' else "AINB"
AinName(channel) == IF upper(channel) = ChanA THEN "AINA" ELSE "AINB"

\* change_pam_function(new_mode), up to the try
change_pam_function_call(new_mode) ==
    LET f == [DrvIdle EXCEPT !.fn = "change_pam_function", !.new_mode = new_mode]
    IN  IF ~PyIn(new_mode, {PyInt(195), PyInt(196)}) THEN DrvReturn(f, FALSE)
        ELSE [f EXCEPT !.pc = "cpf_write"]

\* change_pam_ain_mode(unit, channel), up to the try
change_pam_ain_mode_call(unit, channel) ==
    LET f == [DrvIdle EXCEPT !.fn = "change_pam_ain_mode", !.unit = unit,
                             !.channel = channel]
    IN  IF ~PyIn(unit, {UnitV, UnitC}) THEN DrvReturn(f, FALSE)
        ELSE [f EXCEPT !.pc = "cam_write"]

\* a range that takes every value, against which C21 is tested
CurrentUnbounded(v) == TRUE

\* the range of a current value, in mA
CurrentInRange(v) == 500 <= v /\ v <= 2600

\* a validation that wants A or B in every mode, against which C28 is tested
ChannelRejectedAnyMode(mode, ch) == ch \notin {ChanA, ChanB}

\* elif mode == "196" and channel not in ['A', 'B']: return False
ChannelRejected(mode, ch) == mode = PyStr(IntText(196)) /\ ch \notin {ChanA, ChanB}

\* set_current_value(value, channel, mode), its VALIDATION part; `requested`
\* keeps the channel argument, which the method rebinds
set_current_value_call(value, channel, mode) ==
    LET f == [DrvIdle EXCEPT !.fn = "set_current_value", !.value = value,
                             !.channel = channel, !.mode = mode,
                             !.requested = channel]
    IN  IF ~IntParses(value) THEN DrvReturn(f, FALSE)
        ELSE IF ~CurrentInRange(int(value)) THEN DrvReturn(f, FALSE)
        ELSE IF ~IsStr(channel) THEN DrvReturn(f, FALSE)
        ELSE LET ch == upper(channel)
                 g == [f EXCEPT !.value = PyInt(int(value)), !.pc = "scv_write"]
             IN  IF ChannelRejected(mode, ch) THEN DrvReturn(f, FALSE)
                 ELSE IF mode = PyStr(IntText(195)) /\ ch # ChanA
                 THEN [g EXCEPT !.channel = ChanA]
                 ELSE [g EXCEPT !.channel = ch]

DrvFrame(t, f) ==
    /\ drv' = [drv EXCEPT ![t] = f]
    /\ UNCHANGED <<procVars, h, verify_attr, sstate, ncalls, ble, sideVars>>

\* one exchange of a driver method: the command goes out (after `pre`, the
\* method's own reset of the input buffer), the frame moves on
DrvExchange(t, pre, c, next) ==
    \E x \in Exchanges(dev, c) :
        /\ dev' = x.dev
        /\ log' = Logged(t, pre \o CmdOps(c))
        /\ DrvFrame(t, [drv[t] EXCEPT !.pc = next])

\* a function change that leaves the setpoints alone, against which C30 is
\* tested
cpf_write_only(t) ==
    /\ drv[t].pc = "cpf_write"
    /\ DrvExchange(t, ResetOp, WriteCmd("FUNCTION", drv[t].new_mode), "cpf_save")

\* change_pam_function: reset, FUNCTION <mode>
cpf_write(t) ==
    /\ drv[t].pc = "cpf_write"
    /\ DrvExchange(t, ResetOp, WriteCmd("FUNCTION", drv[t].new_mode), "cpf_ia")

cpf_ia(t) ==
    /\ drv[t].pc = "cpf_ia"
    /\ DrvExchange(t, <<>>, WriteCmd("IA", PyInt(0)), "cpf_ib")

cpf_ib(t) ==
    /\ drv[t].pc = "cpf_ib"
    /\ DrvExchange(t, <<>>, WriteCmd("IB", PyInt(0)), "cpf_save")

cpf_save(t) ==
    /\ drv[t].pc = "cpf_save"
    /\ DrvExchange(t, <<>>, SaveCmd, "cpf_verify")

\* reset, read_function(), resp == float(new_mode)
cpf_verify(t) ==
    /\ drv[t].pc = "cpf_verify"
    /\ \E x \in Exchanges(dev, ReadCmd("FUNCTION")) :
        /\ dev' = x.dev
        /\ log' = Logged(t, ResetOp \o CmdOps(ReadCmd("FUNCTION")))
        /\ DrvFrame(t, DrvReturn(drv[t],
               PyEq(extract_number(x.reply), ToFloat(drv[t].new_mode))))

\* change_pam_ain_mode: reset, AIN<channel> <unit>; a channel that is no
\* str makes channel.upper() raise after the reset
cam_write(t) ==
    /\ drv[t].pc = "cam_write"
    /\ IF IsStr(drv[t].channel)
       THEN DrvExchange(t, ResetOp,
                WriteCmd(AinName(drv[t].channel), drv[t].unit), "cam_save")
       ELSE /\ log' = Logged(t, ResetOp)
            /\ dev' = dev
            /\ DrvFrame(t, DrvReturn(drv[t], FALSE))

cam_save(t) ==
    /\ drv[t].pc = "cam_save"
    /\ DrvExchange(t, <<>>, SaveCmd, "cam_verify")

\* reset, read_ain_mode(channel), resp == unit
cam_verify(t) ==
    /\ drv[t].pc = "cam_verify"
    /\ LET c == ReadCmd(AinName(drv[t].channel))
       IN  \E x \in Exchanges(dev, c) :
             /\ dev' = x.dev
             /\ log' = Logged(t, ResetOp \o CmdOps(c))
             /\ DrvFrame(t, DrvReturn(drv[t], extract_mode(x.reply) = drv[t].unit))

\* the command set_current_value writes and reads back
CurrentName(mode, channel) ==
    IF mode = PyStr(IntText(195)) THEN "CURRENT"
    ELSE IF channel = ChanA THEN "CURRENT:A" ELSE "CURRENT:B"

\* set_current_value, EXECUTION: reset, then the write for the mode; a mode
\* that is neither "195" nor "196" leaves `success` unbound, which raises
scv_write(t) ==
    /\ drv[t].pc = "scv_write"
    /\ IF drv[t].mode \in {PyStr(IntText(195)), PyStr(IntText(196))}
       THEN DrvExchange(t, ResetOp,
                WriteCmd(CurrentName(drv[t].mode, drv[t].channel), drv[t].value),
                "scv_save")
       ELSE /\ log' = Logged(t, ResetOp)
            /\ dev' = dev
            /\ DrvFrame(t, DrvReturn(drv[t], FALSE))

scv_save(t) ==
    /\ drv[t].pc = "scv_save"
    /\ DrvExchange(t, <<>>, SaveCmd, "scv_verify")

\* a verification that accepts every readback, against which C29 is tested
VerifiedAlways(resp, value) == TRUE

\* `if resp != value: return False`
Verified(resp, value) == PyEq(resp, value)

\* `if self._verify_writes:` reads the attribute the constructor never sets
scv_verify(t) ==
    /\ drv[t].pc = "scv_verify"
    /\ CASE verify_attr = "unset" ->
              /\ UNCHANGED <<dev, log>>
              /\ DrvFrame(t, DrvReturn(drv[t], FALSE))
         [] verify_attr = "off" ->
              /\ UNCHANGED <<dev, log>>
              /\ DrvFrame(t, DrvReturn(drv[t], TRUE))
         [] OTHER ->
              LET c == ReadCmd(CurrentName(drv[t].mode, drv[t].channel))
              IN  \E x \in Exchanges(dev, c) :
                    /\ dev' = x.dev
                    /\ log' = Logged(t, CmdOps(c))
                    /\ DrvFrame(t, DrvReturn(drv[t],
                           Verified(extract_number(x.reply), drv[t].value)))

\* an exception inside a method's try: `except Exception: return False`
DriverFault(t) ==
    /\ DrvBusy(t)
    /\ UNCHANGED <<dev, log>>
    /\ DrvFrame(t, DrvReturn(drv[t], FALSE))

DriverStep(t) ==
    \/ cpf_write(t) \/ cpf_ia(t) \/ cpf_ib(t) \/ cpf_save(t) \/ cpf_verify(t)
    \/ cam_write(t) \/ cam_save(t) \/ cam_verify(t)
    \/ scv_write(t) \/ scv_save(t) \/ scv_verify(t)
    \/ DriverFault(t)

(***************************************************************************)
(* CommandProcessor: the handlers, run by thread t on the command in its   *)
(* frame.  A step is one access to the shared state or to the link,        *)
(* together with the local computation that follows it.                    *)
(***************************************************************************)
HStep(t, f, s2, d, l, dv) ==
    /\ h' = [h EXCEPT ![t] = f]
    /\ sstate' = s2
    /\ drv' = [drv EXCEPT ![t] = d]
    /\ log' = l
    /\ dev' = dv
    /\ UNCHANGED <<procVars, verify_attr, ncalls, ble, sideVars>>

\* a step that touches the shared state only
HLocal(t, f, s2) == HStep(t, f, s2, drv[t], log, dev)

\* a step that calls a multi-step driver method
HCall(t, f, s2, d) == HStep(t, f, s2, d, log, dev)

\* a step that is one cmd() of a single-command driver method; the frame
\* that follows depends on the reply
HExchange(t, c, F(_)) ==
    \E x \in Exchanges(dev, c) :
        HStep(t, F(x.reply), sstate, drv[t], Logged(t, CmdOps(c)), x.dev)

Param(t, key) == dict_get(h[t].cmd.params, key, PyNone)

\* ---- _handle_change_mode ----
\* a handler that takes every mode, against which C9 is tested
AnyModeAccepted(new_mode) == TRUE

\* new_mode in [195, 196]
ModeAccepted(new_mode) == PyIn(new_mode, {PyInt(195), PyInt(196)})

cm_start(t) ==
    /\ h[t].pc = "cm_start"
    /\ IF ~ModeAccepted(Param(t, "mode"))
       THEN HLocal(t, Return(h[t], CommandResult(FALSE, "Invalid mode", PyNone)), sstate)
       ELSE HLocal(t, [h[t] EXCEPT !.pc = "cm_set", !.old_mode = get(sstate, "FUNC")],
                   sstate)

cm_set(t) ==
    /\ h[t].pc = "cm_set"
    /\ HCall(t, [h[t] EXCEPT !.pc = "cm_wait"], set_transition(sstate, TRUE),
             change_pam_function_call(Param(t, "mode")))

\* a failure path that forgets the flag, against which C1 is tested
ChangeFailedKeepsFlag(s) == s

\* a failure path that also forgets the mode, against which C31 is tested
ChangeFailedResetsFunc(s) == set_transition(update(s, [FUNC |-> PyNone]), FALSE)

\* what a ChangeMode does with the flag when change_pam_function fails
ChangeFailed(s) == set_transition(s, FALSE)

cm_wait(t) ==
    /\ h[t].pc = "cm_wait"
    /\ drv[t].pc = "done"
    /\ IF drv[t].ret
       THEN IF PyEq(Param(t, "mode"), PyInt(196)) /\ PyEq(h[t].old_mode, PyInt(195))
            THEN HCall(t, [h[t] EXCEPT !.pc = "cm_read_a"], sstate, DrvIdle)
            ELSE HCall(t, [h[t] EXCEPT !.pc = "clear",
                             !.result = CommandResult(TRUE, "Mode changed", PyNone)],
                       update(sstate, [FUNC |-> Param(t, "mode")]), DrvIdle)
       ELSE HCall(t, Return(h[t], CommandResult(FALSE, "Mode change failed", PyNone)),
                  ChangeFailed(sstate), DrvIdle)

\* a synchronisation that always takes 'V', against which C13 is tested
SyncUnitDefault(r) == UnitV

\* current_mode = read_ain_mode('A'), 'V' when nothing parsed
SyncUnit(r) == IF extract_mode(r) = PyNone THEN UnitV ELSE extract_mode(r)

cm_read_a(t) ==
    /\ h[t].pc = "cm_read_a"
    /\ HExchange(t, ReadCmd("AINA"),
          LAMBDA r : [h[t] EXCEPT !.pc = "cm_write_a", !.current_mode = SyncUnit(r)])

cm_write_a(t) ==
    /\ h[t].pc = "cm_write_a"
    /\ HExchange(t, WriteCmd("AINA", h[t].current_mode),
          LAMBDA r : [h[t] EXCEPT !.pc = "cm_write_b"])

cm_write_b(t) ==
    /\ h[t].pc = "cm_write_b"
    /\ HExchange(t, WriteCmd("AINB", h[t].current_mode),
          LAMBDA r : [h[t] EXCEPT !.pc = "cm_save"])

cm_save(t) ==
    /\ h[t].pc = "cm_save"
    /\ HExchange(t, SaveCmd, LAMBDA r : [h[t] EXCEPT !.pc = "cm_verify_a"])

cm_verify_a(t) ==
    /\ h[t].pc = "cm_verify_a"
    /\ HExchange(t, ReadCmd("AINA"),
          LAMBDA r : [h[t] EXCEPT !.pc = "cm_verify_b", !.new_mode_a = extract_mode(r)])

cm_verify_b(t) ==
    /\ h[t].pc = "cm_verify_b"
    /\ HExchange(t, ReadCmd("AINB"),
          LAMBDA r : [h[t] EXCEPT !.pc = "cm_publish", !.new_mode_b = extract_mode(r)])

cm_publish(t) ==
    /\ h[t].pc = "cm_publish"
    /\ HLocal(t, [h[t] EXCEPT !.pc = "clear",
                    !.result = CommandResult(TRUE, "Mode changed", PyNone)],
              update(sstate, [FUNC |-> Param(t, "mode"), MODE_A |-> h[t].new_mode_a,
                              MODE_B |-> h[t].new_mode_b]))

\* the success path's last two lines, shared by the three handlers:
\* set_transition(False), return the result
clear(t) ==
    /\ h[t].pc = "clear"
    /\ HLocal(t, Return(h[t], h[t].result), set_transition(sstate, FALSE))

\* ---- _handle_set_ain_mode ----
ChannelParam(t) == dict_get(h[t].cmd.params, "channel", ChanA)

am_start(t) ==
    /\ h[t].pc = "am_start"
    /\ IF ~PyIn(Param(t, "unit"), {UnitV, UnitC})
       THEN HLocal(t, Return(h[t], CommandResult(FALSE, "Invalid unit", PyNone)), sstate)
       ELSE HLocal(t, [h[t] EXCEPT !.current_mode = get(sstate, "FUNC"),
                         !.pc = IF PyEq(get(sstate, "FUNC"), PyInt(196))
                                THEN "am_both" ELSE "am_one"], sstate)

am_both(t) ==
    /\ h[t].pc = "am_both"
    /\ HCall(t, [h[t] EXCEPT !.pc = "am_wait_a"], set_transition(sstate, TRUE),
             change_pam_ain_mode_call(Param(t, "unit"), ChanA))

am_wait_a(t) ==
    /\ h[t].pc = "am_wait_a"
    /\ drv[t].pc = "done"
    /\ HCall(t, [h[t] EXCEPT !.pc = "am_wait_b", !.success_a = drv[t].ret], sstate,
             change_pam_ain_mode_call(Param(t, "unit"), ChanB))

\* a handler content with one channel, against which C26 is tested
EitherSucceeded(success_a, success_b) == success_a \/ success_b

\* if success_a and success_b
BothSucceeded(success_a, success_b) == success_a /\ success_b

am_wait_b(t) ==
    /\ h[t].pc = "am_wait_b"
    /\ drv[t].pc = "done"
    /\ IF BothSucceeded(h[t].success_a, drv[t].ret)
       THEN HCall(t, [h[t] EXCEPT !.pc = "clear",
                        !.result = CommandResult(TRUE, "Both channels set", PyNone)],
                  update(sstate, [MODE_A |-> Param(t, "unit"), MODE_B |-> Param(t, "unit")]),
                  DrvIdle)
       ELSE HCall(t, Return(h[t], CommandResult(FALSE, "Failed to set both channels", PyNone)),
                  set_transition(sstate, FALSE), DrvIdle)

am_one(t) ==
    /\ h[t].pc = "am_one"
    /\ HCall(t, [h[t] EXCEPT !.pc = "am_wait"], set_transition(sstate, TRUE),
             change_pam_ain_mode_call(Param(t, "unit"), ChannelParam(t)))

am_wait(t) ==
    /\ h[t].pc = "am_wait"
    /\ drv[t].pc = "done"
    /\ IF drv[t].ret
       THEN HCall(t, [h[t] EXCEPT !.pc = "clear",
                        !.result = CommandResult(TRUE, "AIN set", PyNone)],
                  update(sstate, [MODE |-> Param(t, "unit")]), DrvIdle)
       ELSE HCall(t, Return(h[t], CommandResult(FALSE, "AIN mode change failed", PyNone)),
                  set_transition(sstate, FALSE), DrvIdle)

\* ---- _handle_set_current ----
\* a handler that takes every value, against which C10 is tested
AnyValueAccepted(value) == TRUE

\* the handler's `# Validate`: isinstance(value, int), 500 <= value <= 2600
ValueAccepted(value) == IsInt(value) /\ CurrentInRange(value.v)

sc_start(t) ==
    /\ h[t].pc = "sc_start"
    /\ IF ~ValueAccepted(Param(t, "value"))
       THEN HLocal(t, Return(h[t],
                CommandResult(FALSE,
                    IF IsInt(Param(t, "value")) THEN "Value out of range"
                    ELSE "Invalid value type", PyNone)), sstate)
       ELSE HLocal(t, [h[t] EXCEPT !.pc = "sc_set"], sstate)

sc_set(t) ==
    /\ h[t].pc = "sc_set"
    /\ HCall(t, [h[t] EXCEPT !.pc = "sc_wait"], set_transition(sstate, TRUE),
             IF PyEq(Param(t, "mode"), PyInt(195))
             THEN set_current_value_call(Param(t, "value"), ChanA, str(Param(t, "mode")))
             ELSE set_current_value_call(Param(t, "value"), ChannelParam(t),
                                         str(Param(t, "mode"))))

\* the field a successful SetCurrent publishes
CurrentField(mode, channel) ==
    IF PyEq(mode, PyInt(195)) THEN "CURRENT_STATUS"
    ELSE IF channel = ChanA THEN "CURRENT_A_STATUS" ELSE "CURRENT_B_STATUS"

sc_wait(t) ==
    /\ h[t].pc = "sc_wait"
    /\ drv[t].pc = "done"
    /\ IF drv[t].ret
       THEN HCall(t, [h[t] EXCEPT !.pc = "clear",
                        !.result = CommandResult(TRUE, "Current set", PyNone)],
                  update(sstate,
                         (CurrentField(Param(t, "mode"), ChannelParam(t))
                              :> Param(t, "value"))),
                  DrvIdle)
       ELSE HCall(t, Return(h[t], CommandResult(FALSE, "Failed to set current", PyNone)),
                  set_transition(sstate, FALSE), DrvIdle)

\* ---- _handle_save_settings, _handle_get_status, an unknown type ----
sv_start(t) ==
    /\ h[t].pc = "sv_start"
    /\ HExchange(t, SaveCmd,
          LAMBDA r : Return(h[t], CommandResult(TRUE, "Settings saved", PyNone)))

gs_start(t) ==
    /\ h[t].pc = "gs_start"
    /\ HLocal(t, Return(h[t], CommandResult(TRUE, "Status retrieved", get_all(sstate))),
              sstate)

unknown(t) ==
    /\ h[t].pc = "unknown"
    /\ HLocal(t, Return(h[t], CommandResult(FALSE, "Unknown command type", PyNone)), sstate)

\* _execute_command: the handler of the command's type
EntryPc(type) ==
    CASE type = "change_mode" -> "cm_start"
      [] type = "set_ain_mode" -> "am_start"
      [] type = "set_current" -> "sc_start"
      [] type = "save_settings" -> "sv_start"
      [] type = "get_status" -> "gs_start"
      [] OTHER -> "unknown"

StartFrame(cmd) == [IdleFrame EXCEPT !.pc = EntryPc(cmd.type), !.cmd = cmd]

\* ("get" and "exited" are positions of the worker's loop, outside any handler)
InHandler(t) == h[t].pc \notin {"idle", "ret", "unknown", "dead", "get", "exited"}

\* the handlers that raise the transition flag and clear it in their except
FlagHandlers == {"change_mode", "set_ain_mode", "set_current"}

\* a fault that ends the thread, against which C7 is tested
OnFaultDies(f) == [f EXCEPT !.pc = "dead"]

\* the except clause of a handler: the frame it leaves
OnFault(f) ==
    Return(f, CommandResult(FALSE,
        CASE f.cmd.type = "change_mode" -> "Mode change error"
          [] f.cmd.type = "set_ain_mode" -> "AIN mode error"
          [] f.cmd.type = "set_current" -> "Current setting error"
          [] f.cmd.type = "save_settings" -> "Save failed"
          [] OTHER -> "Status error", PyNone))

\* an except clause that leaves the flag, against which C18 is tested
FaultStateKeepsFlag(f, s) == s

\* the except clause of a handler: what it does with the shared state
FaultState(f, s) ==
    IF f.cmd.type \in FlagHandlers THEN set_transition(s, FALSE) ELSE s

\* an exception raised inside a handler's try, wherever a call of the
\* handler can raise: the two lines that end the success path,
\* set_transition(False) and the return of the result, raise nothing
HandlerFault(t) ==
    /\ InHandler(t)
    /\ h[t].pc # "clear"
    /\ ~DrvBusy(t)
    /\ HCall(t, OnFault(h[t]), FaultState(h[t], sstate), DrvIdle)

HandlerStep(t) ==
    \/ cm_start(t) \/ cm_set(t) \/ cm_wait(t) \/ cm_read_a(t) \/ cm_write_a(t)
    \/ cm_write_b(t) \/ cm_save(t) \/ cm_verify_a(t) \/ cm_verify_b(t)
    \/ cm_publish(t) \/ clear(t)
    \/ am_start(t) \/ am_both(t) \/ am_wait_a(t) \/ am_wait_b(t) \/ am_one(t)
    \/ am_wait(t)
    \/ sc_start(t) \/ sc_set(t) \/ sc_wait(t)
    \/ sv_start(t) \/ gs_start(t)
    \/ HandlerFault(t)

(***************************************************************************)
(* CommandProcessor._process_loop: the worker thread.                      *)
(***************************************************************************)
\* a get that takes the newest command, against which C3 is tested
DequeueNewest(q) == [cmd |-> q[Len(q)], rest |-> SubSeq(q, 1, Len(q) - 1)]

\* command_queue.get(): the command taken and what is left
Dequeue(q) == [cmd |-> Head(q), rest |-> Tail(q)]

\* cmd = self.command_queue.get(timeout=0.5), then _execute_command(cmd)
\* enters the handler; an empty queue only makes the loop go round
WorkerDequeue ==
    /\ running
    /\ h[WorkerThread].pc = "idle"
    /\ queue # <<>>
    /\ queue' = Dequeue(queue).rest
    /\ started' = Append(started, Dequeue(queue).cmd.id)
    /\ h' = [h EXCEPT ![WorkerThread] = StartFrame(Dequeue(queue).cmd)]
    /\ UNCHANGED <<running, call, respq, drv, verify_attr, sstate, dev,
                   log, ncalls, ble, sideVars>>

\* a worker that puts every result on a response queue, against which C25
\* is tested
DeliversAlways(cmd) == TRUE

\* a worker that puts no result anywhere, against which C34 is tested
DeliversNever(cmd) == FALSE

\* `if cmd.response_queue:`: only a waiting submit made a response queue
Delivers(cmd) == cmd.wait

\* one response queue for all the callers, against which C35 is tested
FirstResponseQueue(cmd) == 1

\* cmd.response_queue: the queue submit made for this command and no other
response_queue(cmd) == cmd.id

\* `if cmd.response_queue: cmd.response_queue.put(result)`, and round again
WorkerDeliver ==
    /\ h[WorkerThread].pc = "ret"
    /\ LET cmd == h[WorkerThread].cmd
           result == h[WorkerThread].result
       IN  /\ respq' = IF Delivers(cmd)
                       THEN [respq EXCEPT ![response_queue(cmd)] = Append(@, result)]
                       ELSE respq
    /\ h' = [h EXCEPT ![WorkerThread] = IdleFrame]
    /\ log' = [log EXCEPT ![WorkerThread] = <<>>]
    /\ UNCHANGED <<queue, running, call, started, drv, verify_attr, sstate, dev,
                   ncalls, ble, sideVars>>

WorkerStep ==
    \/ WorkerDequeue
    \/ WorkerDeliver
    \/ HandlerStep(WorkerThread)
    \/ DriverStep(WorkerThread)

\* the verify_writes setter, called on the controller before it is used
set_verify_writes(value) ==
    /\ verify_attr = "unset"
    /\ call = <<>>
    /\ ncalls = 0
    /\ verify_attr' = value
    /\ UNCHANGED <<procVars, h, drv, sstate, dev, log, ncalls, ble, sideVars>>

(***************************************************************************)
(* The callers of submit: any number of threads, each call its own.        *)
(***************************************************************************)
Dict1(k, v) == (k :> v)
Dict3(k1, v1, k2, v2, k3, v3) == (k1 :> v1) @@ (k2 :> v2) @@ (k3 :> v3)

\* the commands the callers of Spec submit
CmdChoices ==
    { [type |-> "change_mode", params |-> Dict1("mode", PyInt(m))] : m \in {195, 196} }
    \cup { [type |-> "set_ain_mode",
            params |-> (("unit" :> PyStr(<<u>>)) @@ ("channel" :> ChanA))] : u \in {"C"} }
    \cup { [type |-> "set_current",
            params |-> Dict3("value", PyInt(v), "channel", ChanA, "mode", PyInt(195))] :
              v \in {1000} }
    \cup { [type |-> "save_settings", params |-> EmptyDict],
           [type |-> "get_status", params |-> EmptyDict] }

CallerStep ==
    \/ \E c \in CmdChoices, wait \in BOOLEAN :
          /\ Len(call) < MaxCmds
          /\ submit(c.type, c.params, wait)
    \/ \E id \in 1..Len(call) : SubmitGet(id)
    \/ \E id \in 1..Len(call) : SubmitTimeout(id)

\* an attribute hasattr() does not find, and one holding a list
NoAttr == [has |-> FALSE, items |-> <<>>]
Attr(items) == [has |-> TRUE, items |-> items]

\* main_loop before its first iteration
PollInit ==
    [pc |-> "top", n |-> 0, k |-> 0, func |-> PyNone, mode_a |-> PyNone, mode_b |-> PyNone,
     wa |-> PyNone, wb |-> PyNone, ia |-> PyNone, ib |-> PyNone, ready |-> PyNone]

\* the lock free, nobody inside update or get_all, no snapshot handed out
MsInit ==
    [lock |-> "free", wpc |-> "idle", i |-> 0, kwargs |-> <<>>, nupdates |-> 0,
     rpc |-> "idle", snap |-> PyNone, nreads |-> 0, wft |-> "none", nwaits |-> 0]

\* the threads that call PAMController.cmd on the one link
LinkThreads == {WorkerThread, PollThread}

\* a thread outside cmd: commands begun, the size read asks for, `response`
LkIdle == [pc |-> "idle", k |-> 0, size |-> 0, response |-> <<>>]

\* SerialReconnect.__init__ has opened the port: the first handle
SerInit ==
    [handle |-> 1, isopen |-> TRUE, pc |-> "idle", op |-> "none", caller |-> "none",
     on |-> <<>>, closes |-> 0, attempts |-> 0, out |-> "none", faults |-> 0,
     nops |-> 0, cpc |-> "none", cret |-> "none", ncmds |-> 0,
     inbuf |-> <<>>, lk |-> [t \in LinkThreads |-> LkIdle]]

BleInit ==
    [write_lock |-> FALSE, last_mode_command |-> PyNone, last_ain_channel |-> PyNone,
     ain_command_queue |-> NoAttr, nwrites |-> 0]

Init ==
    /\ queue = <<>>
    /\ running = TRUE
    /\ call = <<>>
    /\ respq = <<>>
    /\ started = <<>>
    /\ h = [t \in Threads |-> IdleFrame]
    /\ drv = [t \in Threads |-> DrvIdle]
    /\ verify_attr = "unset"
    /\ sstate = StateInit
    /\ dev \in DevInit
    /\ log = [t \in Threads |-> <<>>]
    /\ ncalls = 0
    /\ ble = BleInit
    /\ poll = PollInit
    /\ ms = MsInit
    /\ ser = SerInit

Next ==
    \/ CallerStep
    \/ WorkerStep

Spec == Init /\ [][Next]_vars

\* The worker is a thread that runs whenever it can; a caller's
\* response_queue.get(timeout=5.0) returns, with the result or by the timeout.
FairSpec ==
    /\ Spec
    /\ WF_vars(WorkerStep)
    /\ \A id \in 1..MaxCmds : WF_vars(SubmitGet(id) \/ SubmitTimeout(id))

(***************************************************************************)
(* SpecStall: the queue filled to its capacity.  The callers submit        *)
(* GetStatus only (fifty arbitrary commands cannot be enumerated), and ask *)
(* for a response only of a submit that finds the queue full.              *)
(***************************************************************************)
StallSubmit ==
    \E wait \in BOOLEAN :
        /\ Len(call) < MaxStallCmds
        /\ wait => Len(queue) >= QueueMaxSize
        /\ submit("get_status", EmptyDict, wait)

NextStall ==
    \/ StallSubmit
    \/ WorkerDequeue
    \/ gs_start(WorkerThread)
    \/ WorkerDeliver

SpecStall == Init /\ [][NextStall]_vars

(***************************************************************************)
(* SpecDirect: one thread that invokes the handlers and the driver's       *)
(* methods itself, one invocation after the other, with arguments of every *)
(* kind, as a test of the units does.  PIN15 is ON or OFF throughout.      *)
(***************************************************************************)
Params(mode, unit, channel, value) ==
    ("mode" :> mode) @@ ("unit" :> unit) @@ ("channel" :> channel) @@ ("value" :> value)

\* the commands handed to the handlers
DirectCommands ==
    { [type |-> "change_mode", params |-> Dict1("mode", m)] :
          m \in {PyInt(195), PyInt(196), PyInt(197)} }
    \cup { [type |-> "change_mode", params |-> EmptyDict] }
    \cup { [type |-> "set_ain_mode", params |-> Params(PyNone, u, c, PyNone)] :
          u \in {UnitC, PyStr(<<"X">>)}, c \in {ChanA, ChanB} }
    \cup { [type |-> "set_current", params |-> Params(PyInt(195), PyNone, ChanA, v)] :
          v \in {PyInt(499), PyInt(500), PyStr(<<"1", "0", "0", "0">>)} }
    \cup { [type |-> "set_current", params |-> Params(PyInt(196), PyNone, ChanB, v)] :
          v \in {PyInt(2600), PyInt(2601), PyFloat(FALSE, 1000, <<>>)} }
    \cup { [type |-> "save_settings", params |-> EmptyDict],
           [type |-> "get_status", params |-> EmptyDict],
           [type |-> "reboot", params |-> EmptyDict] }

\* the calls made on the driver
DirectDriverCalls ==
    { change_pam_function_call(m) : m \in {PyInt(195), PyInt(196), PyInt(197)} }
    \cup { change_pam_ain_mode_call(u, ChanB) : u \in {UnitV, PyStr(<<"X">>)} }
    \cup { set_current_value_call(v, c, PyStr(IntText(m))) :
             v \in {PyInt(499), PyInt(1000), PyInt(2601), PyStr(<<"1", "2", "x">>)},
             c \in {PyStr(<<"b">>)}, m \in {195, 196} }

DirectIdle ==
    /\ h[DirectThread].pc \in {"idle", "ret"}
    /\ drv[DirectThread].pc \in {"idle", "done"}
    /\ ncalls < MaxDirectCalls

DirectInvoke(f, d) ==
    /\ DirectIdle
    /\ h' = [h EXCEPT ![DirectThread] = f]
    /\ drv' = [drv EXCEPT ![DirectThread] = d]
    /\ log' = [log EXCEPT ![DirectThread] = <<>>]
    /\ ncalls' = ncalls + 1
    /\ UNCHANGED <<procVars, verify_attr, sstate, dev, ble, sideVars>>

DirectStep ==
    \/ \E c \in DirectCommands :
          DirectInvoke(StartFrame(Command(ncalls + 1, c.type, c.params, FALSE)), DrvIdle)
    \/ \E d \in DirectDriverCalls : DirectInvoke(IdleFrame, d)
    \/ \E v \in {"on", "off"} : set_verify_writes(v)
    \/ HandlerStep(DirectThread)
    \/ unknown(DirectThread)
    \/ DriverStep(DirectThread)

InitDirect ==
    /\ queue = <<>>
    /\ running = TRUE
    /\ call = <<>>
    /\ respq = <<>>
    /\ started = <<>>
    /\ h = [t \in Threads |-> IdleFrame]
    /\ drv = [t \in Threads |-> DrvIdle]
    /\ verify_attr = "unset"
    /\ sstate = StateInit
    /\ dev \in { [d EXCEPT !.pin15 = p] : d \in DevInit, p \in BOOLEAN }
    /\ log = [t \in Threads |-> <<>>]
    /\ ncalls = 0
    /\ ble = BleInit
    /\ poll = PollInit
    /\ ms = MsInit
    /\ ser = SerInit

SpecDirect == InitDirect /\ [][DirectStep]_vars

(***************************************************************************)
(* SpecModes: one thread that runs ChangeMode handlers one after the other *)
(* against a simulated device whose AIN channels start with any units, on  *)
(* a link that loses traffic or on one that does not.                      *)
(***************************************************************************)
ModeInvoke(new_mode) ==
    /\ h[DirectThread].pc \in {"idle", "ret"}
    /\ ncalls < MaxModeCalls
    /\ h' = [h EXCEPT ![DirectThread] =
                StartFrame(Command(ncalls + 1, "change_mode",
                                   Dict1("mode", PyInt(new_mode)), FALSE))]
    /\ drv' = [drv EXCEPT ![DirectThread] = DrvIdle]
    /\ log' = [log EXCEPT ![DirectThread] = <<>>]
    /\ ncalls' = ncalls + 1
    /\ UNCHANGED <<procVars, verify_attr, sstate, dev, ble, sideVars>>

ModesStep ==
    \/ \E new_mode \in {195, 196} : ModeInvoke(new_mode)
    \/ cm_start(DirectThread) \/ cm_set(DirectThread) \/ cm_wait(DirectThread)
    \/ cm_read_a(DirectThread) \/ cm_write_a(DirectThread) \/ cm_write_b(DirectThread)
    \/ cm_save(DirectThread) \/ cm_verify_a(DirectThread) \/ cm_verify_b(DirectThread)
    \/ cm_publish(DirectThread) \/ clear(DirectThread)
    \/ cpf_write(DirectThread) \/ cpf_ia(DirectThread) \/ cpf_ib(DirectThread)
    \/ cpf_save(DirectThread) \/ cpf_verify(DirectThread)

InitModes ==
    /\ queue = <<>>
    /\ running = TRUE
    /\ call = <<>>
    /\ respq = <<>>
    /\ started = <<>>
    /\ h = [t \in Threads |-> IdleFrame]
    /\ drv = [t \in Threads |-> DrvIdle]
    /\ verify_attr = "unset"
    /\ sstate = StateInit
    /\ dev \in { [d EXCEPT !.aina = a, !.ainb = b, !.lossy = l] :
                   d \in DevInit, a \in {"V", "C"}, b \in {"V", "C"}, l \in BOOLEAN }
    /\ log = [t \in Threads |-> <<>>]
    /\ ncalls = 0
    /\ ble = BleInit
    /\ poll = PollInit
    /\ ms = MsInit
    /\ ser = SerInit

SpecModes == InitModes /\ [][ModesStep]_vars

(***************************************************************************)
(* SpecReady: get_ready_status (hardware/pam.py), called by one thread on  *)
(* a device whose status word and FUNCTION are any of a set of values.     *)
(***************************************************************************)
\* a Python str that is only passed on, never taken apart
PyText(s) == [kind |-> "text", text |-> s]

\* a status word left unmasked, against which C15 is tested
NoMask16(val) == val

\* val & 0xFFFF
Mask16(val) == val % 65536

\* (status & 2^k) > 0
Bit(status, k) == (status \div (2 ^ k)) % 2 = 1

\* MODE 195 LOGIC: 65532 means all off, else bit 8 is A and bit 7 is B
ReadyText195(val) ==
    LET status == Mask16(val)
        chA_ok == Bit(status, 8)
        chB_ok == Bit(status, 7)
    IN  IF status = 65532 THEN PyText("ALL OFF")
        ELSE IF chA_ok /\ chB_ok THEN PyText("A + B ACTIVE")
        ELSE IF chB_ok THEN PyText("B ACTIVE")
        ELSE IF chA_ok THEN PyText("A ACTIVE")
        ELSE PyText("ALL OFF")

\* a decoding of mode 196 by bits 8 and 7, against which C14 is tested
ReadyText196LowBits(val) ==
    IF Bit(Mask16(val), 8) /\ Bit(Mask16(val), 7) THEN PyText("A + B ACTIVE")
    ELSE IF Bit(Mask16(val), 8) THEN PyText("A ACTIVE")
    ELSE IF Bit(Mask16(val), 7) THEN PyText("B ACTIVE")
    ELSE PyText("ALL OFF")

\* MODE 196 LOGIC: bit 14 is A, bit 15 is B
ReadyText196(val) ==
    LET status == Mask16(val)
        chA == Bit(status, 14)
        chB == Bit(status, 15)
    IN  IF chA /\ chB THEN PyText("A + B ACTIVE")
        ELSE IF chA THEN PyText("A ACTIVE")
        ELSE IF chB THEN PyText("B ACTIVE")
        ELSE PyText("ALL OFF")

\* the decoding by the mode read; a mode that is neither falls off the end
\* of the method, which returns None
ReadyText(val, mode) ==
    IF PyEq(mode, PyInt(196)) THEN ReadyText196(val)
    ELSE IF PyEq(mode, PyInt(195)) THEN ReadyText195(val)
    ELSE PyNone

get_ready_status_call ==
    [DrvIdle EXCEPT !.fn = "get_ready_status", !.pc = "grs_status"]

\* val_raw = self.read_status_value(); None gives "No Data"; val = int(val_raw)
grs_status(t) ==
    /\ drv[t].pc = "grs_status"
    /\ \E x \in Exchanges(dev, ReadCmd("RX1:READYA")) :
        /\ dev' = x.dev
        /\ log' = Logged(t, CmdOps(ReadCmd("RX1:READYA")))
        /\ DrvFrame(t, IF extract_number(x.reply) = PyNone
                       THEN DrvReturn(drv[t], PyText("No Data"))
                       ELSE [drv[t] EXCEPT !.pc = "grs_function",
                                !.value = PyInt(IntOfFloat(extract_number(x.reply)))])

\* mode = self.read_function(), and the decoding
grs_function(t) ==
    /\ drv[t].pc = "grs_function"
    /\ \E x \in Exchanges(dev, ReadCmd("FUNCTION")) :
        /\ dev' = x.dev
        /\ log' = Logged(t, CmdOps(ReadCmd("FUNCTION")))
        /\ DrvFrame(t, DrvReturn(drv[t],
                          ReadyText(drv[t].value.v, extract_number(x.reply))))

\* except Exception as e: return f"READY Error: {e}"
grs_fault(t) ==
    /\ drv[t].pc \in {"grs_status", "grs_function"}
    /\ UNCHANGED <<dev, log>>
    /\ DrvFrame(t, DrvReturn(drv[t], PyText("READY Error")))

\* the raw status words the simulated device holds
RawStatusValues ==
    {0, 1, 128, 256, 384, 16384, 16512, 32768, 33024, 49152, 49536, 65532, 65535,
     -1, -4, -16384, -32768, -49152, -65532, 81920, 131068}

ReadyInvoke ==
    /\ drv[DirectThread].pc \in {"idle", "done"}
    /\ ncalls < MaxReadyCalls
    /\ drv' = [drv EXCEPT ![DirectThread] = get_ready_status_call]
    /\ log' = [log EXCEPT ![DirectThread] = <<>>]
    /\ ncalls' = ncalls + 1
    /\ UNCHANGED <<procVars, h, verify_attr, sstate, dev, ble, sideVars>>

ReadyStep ==
    \/ ReadyInvoke
    \/ grs_status(DirectThread)
    \/ grs_function(DirectThread)
    \/ grs_fault(DirectThread)

InitReady ==
    /\ queue = <<>>
    /\ running = TRUE
    /\ call = <<>>
    /\ respq = <<>>
    /\ started = <<>>
    /\ h = [t \in Threads |-> IdleFrame]
    /\ drv = [t \in Threads |-> DrvIdle]
    /\ verify_attr = "unset"
    /\ sstate = StateInit
    /\ dev \in { [d EXCEPT !.status = v, !.lossy = l] :
                   d \in DevInit, v \in RawStatusValues, l \in BOOLEAN }
    /\ log = [t \in Threads |-> <<>>]
    /\ ncalls = 0
    /\ ble = BleInit
    /\ poll = PollInit
    /\ ms = MsInit
    /\ ser = SerInit

SpecReady == InitReady /\ [][ReadyStep]_vars

(***************************************************************************)
(* SpecState: MachineState (state.py) at the level of its lock.  One       *)
(* thread calls update(FUNC=.., MODE=..), which stores its keys one after  *)
(* the other while it holds _lock; another calls get_all(), and then       *)
(* writes into the mapping it was handed.                                  *)
(***************************************************************************)
MaxUpdates == 3
MaxReads == 2
\* the wait_for_transition calls of SpecState
MaxWaits == 2

\* the order in which dict.update stores the keyword arguments
KwOrder == <<"FUNC", "MODE">>

\* what the writers of the repository pass: a function number and its unit
UpdateArgs ==
    { ("FUNC" :> PyInt(195)) @@ ("MODE" :> UnitV),
      ("FUNC" :> PyInt(196)) @@ ("MODE" :> UnitC) }

\* a mapping that is the very dict of the MachineState, against which the
\* copy of get_all is tested
AliasOf(d) == [ref |-> "live", val |-> d]

\* self._data.copy(): a new dict with the same items, all of them immutable
CopyOf(d) == [ref |-> "copy", val |-> d]

\* what a holder of the mapping m reads in it, the document being s
SnapVal(m, s) == IF m.ref = "live" THEN s ELSE m.val

\* `with self._lock:` is entered only while no thread holds the lock
update_enter(kw) ==
    /\ ms.wpc = "idle"
    /\ ms.nupdates < MaxUpdates
    /\ ms.lock = "free"
    /\ ms' = [ms EXCEPT !.lock = "update", !.wpc = "store", !.i = 1, !.kwargs = kw]
    /\ UNCHANGED <<procVars, execVars, ncalls, ble, poll, ser>>

\* self._data.update(kwargs): the next key of kwargs is stored
update_store ==
    /\ ms.wpc = "store"
    /\ sstate' = [sstate EXCEPT ![KwOrder[ms.i]] = ms.kwargs[KwOrder[ms.i]]]
    /\ ms' = [ms EXCEPT !.wpc = IF ms.i = Len(KwOrder) THEN "exit" ELSE "store",
                        !.i = IF ms.i = Len(KwOrder) THEN 0 ELSE ms.i + 1]
    /\ UNCHANGED <<procVars, h, drv, verify_attr, dev, log, ncalls, ble, poll, ser>>

\* the end of the with block of update
update_exit ==
    /\ ms.wpc = "exit"
    /\ ms' = [ms EXCEPT !.lock = "free", !.wpc = "idle", !.kwargs = <<>>,
                        !.nupdates = @ + 1]
    /\ UNCHANGED <<procVars, execVars, ncalls, ble, poll, ser>>

get_all_enter ==
    /\ ms.rpc = "idle"
    /\ ms.nreads < MaxReads
    /\ ms.lock = "free"
    /\ ms' = [ms EXCEPT !.lock = "get_all", !.rpc = "copy"]
    /\ UNCHANGED <<procVars, execVars, ncalls, ble, poll, ser>>

\* return self._data.copy(), evaluated inside the with block
get_all_copy ==
    /\ ms.rpc = "copy"
    /\ ms' = [ms EXCEPT !.rpc = "exit", !.snap = CopyOf(sstate)]
    /\ UNCHANGED <<procVars, execVars, ncalls, ble, poll, ser>>

get_all_exit ==
    /\ ms.rpc = "exit"
    /\ ms' = [ms EXCEPT !.lock = "free", !.rpc = "have"]
    /\ UNCHANGED <<procVars, execVars, ncalls, ble, poll, ser>>

\* the caller of get_all stores into the mapping it was handed
SnapshotStore(k, v) ==
    /\ ms.rpc = "have"
    /\ ms' = [ms EXCEPT !.rpc = "stored", !.snap.val[k] = v]
    /\ sstate' = IF ms.snap.ref = "live" THEN [sstate EXCEPT ![k] = v] ELSE sstate
    /\ UNCHANGED <<procVars, h, drv, verify_attr, dev, log, ncalls, ble, poll, ser>>

\* the caller lets go of the mapping
SnapshotDrop ==
    /\ ms.rpc = "stored"
    /\ ms' = [ms EXCEPT !.rpc = "idle", !.snap = PyNone, !.nreads = @ + 1]
    /\ UNCHANGED <<procVars, execVars, ncalls, ble, poll, ser>>

\* the names state.py binds at module level: `import threading` and the class
StateGlobals == {"threading", "MachineState"}

\* wait_for_transition(timeout): its first statement, start_time =
\* time.time(), looks `time` up in the globals of the module and raises
\* NameError when it is not there; the loop behind it polls
\* is_in_transition() and changes nothing
wait_for_transition ==
    /\ ms.nwaits < MaxWaits
    /\ ms' = [ms EXCEPT !.nwaits = @ + 1,
                        !.wft = IF "time" \notin StateGlobals THEN "NameError"
                                ELSE IF is_in_transition(sstate) THEN "False"
                                ELSE "True"]
    /\ UNCHANGED <<procVars, execVars, ncalls, ble, poll, ser>>

StateStep ==
    \/ wait_for_transition
    \/ \E kw \in UpdateArgs : update_enter(kw)
    \/ update_store
    \/ update_exit
    \/ get_all_enter
    \/ get_all_copy
    \/ get_all_exit
    \/ \E k \in {"FUNC", "MODE"} : SnapshotStore(k, PyInt(0))
    \/ SnapshotDrop

SpecState == Init /\ [][StateStep]_vars

(***************************************************************************)
(* SpecPoll: main_loop (main.py) going round beside the worker of the      *)
(* CommandProcessor, both on the one PAM link.  The simulated device holds *)
(* any of three FUNCTION numbers, is in STD or in EXP mode, and its link   *)
(* loses traffic or does not.  The DWIN display is another port and takes  *)
(* no part.                                                                *)
(***************************************************************************)
MaxPolls == 1
MaxPollCmds == 1

\* PAMController.extract_pam_mode
extract_pam_mode(resp) ==
    IF \E k \in 1..(Len(resp) - 2) : SubSeq(resp, k, k + 2) = <<"S", "T", "D">>
    THEN PyStr(<<"S", "T", "D">>)
    ELSE IF \E k \in 1..(Len(resp) - 2) : SubSeq(resp, k, k + 2) = <<"E", "X", "P">>
    THEN PyStr(<<"E", "X", "P">>)
    ELSE PyNone

Abs(n) == IF n < 0 THEN -n ELSE n
Min(a, b) == IF a < b THEN a ELSE b
Max(a, b) == IF a > b THEN a ELSE b

Pad4(n) ==
    << DigitChars[((n \div 1000) % 10) + 1], DigitChars[((n \div 100) % 10) + 1],
       DigitChars[((n \div 10) % 10) + 1], DigitChars[(n % 10) + 1] >>

\* the float whose value is t / 10000
Decimal4(t) == PyFloat(t < 0, Abs(t) \div 10000, StripZeros(Pad4(Abs(t) % 10000)))

\* DWIN.scale_value(raw, mode, function), for a raw value without fraction
\* digits, which is what the device sends
scale_value(raw, mode, function) ==
    LET r == IntOfFloat(ToFloat(raw))
    IN  IF mode = UnitV THEN Decimal4(r * 10)
        ELSE IF mode = UnitC
        THEN IF function = 196 THEN Decimal4(r * 16 + 40000)
             ELSE Decimal4(Min(200000, Max(40000, r * 8 + 120000)))
        ELSE PyNone

\* scaled_wa: set only if both wa and mode_a are not None
Scaled(w, mode, function) ==
    IF w # PyNone /\ mode # PyNone THEN scale_value(w, mode, function) ELSE PyNone

\* ia / 10.0 if ia is not None else 0.0
Tenth(i) == IF i # PyNone THEN Decimal4(IntOfFloat(i) * 1000) ELSE Decimal4(0)

Unknown == PyStr(<<"U", "N", "K", "N", "O", "W", "N">>)

\* mode_a if mode_a is not None else "UNKNOWN"
ModeOrUnknown(mode_a) == IF mode_a # PyNone THEN mode_a ELSE Unknown

\* the safe_execution reads of the two branches, in their order
Reads196 ==
    << [cmd |-> "AINA", var |-> "mode_a"], [cmd |-> "AINB", var |-> "mode_b"],
       [cmd |-> "WA", var |-> "wa"], [cmd |-> "WB", var |-> "wb"],
       [cmd |-> "IA", var |-> "ia"], [cmd |-> "IB", var |-> "ib"] >>
Reads195 ==
    << [cmd |-> "AINA", var |-> "mode_a"], [cmd |-> "W", var |-> "wa"],
       [cmd |-> "IA", var |-> "ia"], [cmd |-> "IB", var |-> "ib"] >>
Reads(func) == IF func = PyInt(196) THEN Reads196 ELSE Reads195

\* read_ain_mode parses a unit, the other reads a number
Parsed(var, reply) ==
    IF var \in {"mode_a", "mode_b"} THEN extract_mode(reply) ELSE extract_number(reply)

\* what the branch of main_loop passes to state.update
PollKwargs(p) ==
    IF p.func = PyInt(196)
    THEN [FUNC |-> p.func, WA |-> Scaled(p.wa, p.mode_a, 196),
          WB |-> Scaled(p.wb, p.mode_b, 196), IA |-> Tenth(p.ia), IB |-> Tenth(p.ib),
          MODE |-> ModeOrUnknown(p.mode_a), READY |-> p.ready]
    ELSE IF p.func = PyInt(195)
    THEN [FUNC |-> p.func, WA |-> Scaled(p.wa, p.mode_a, 195),
          WB |-> Decimal4(0), IA |-> Tenth(p.ia), IB |-> Tenth(p.ib),
          MODE |-> ModeOrUnknown(p.mode_a), READY |-> p.ready]
    ELSE [FUNC |-> p.func, MODE |-> Unknown]

PollStep(p, s2, d, l) ==
    /\ poll' = p
    /\ sstate' = s2
    /\ dev' = d
    /\ log' = l
    /\ UNCHANGED <<procVars, h, drv, verify_attr, ncalls, ble, ms, ser>>

\* the top of the while loop: the mode check is due on the first round
\* (last_mode_check = 0) and whenever 3 s have gone by since the last one
poll_top(due) ==
    /\ poll.pc = "top"
    /\ poll.n < MaxPolls
    /\ poll.n = 0 => due
    /\ PollStep([poll EXCEPT !.pc = IF due THEN "esm_mode" ELSE "read_function"],
                sstate, dev, log)

\* ensure_std_mode: resp = self.cmd("MODE")
esm_mode ==
    /\ poll.pc = "esm_mode"
    /\ \E x \in Exchanges(dev, ReadCmd("MODE")) :
        PollStep([poll EXCEPT !.pc = IF extract_pam_mode(x.reply) = PyStr(<<"E", "X", "P">>)
                                      THEN "esm_set" ELSE "read_function"],
                 sstate, x.dev, Logged(PollThread, CmdOps(ReadCmd("MODE"))))

\* self.cmd("MODE STD")
esm_set ==
    /\ poll.pc = "esm_set"
    /\ \E x \in Exchanges(dev, WriteCmd("MODE", PyStr(<<"S", "T", "D">>))) :
        PollStep([poll EXCEPT !.pc = "esm_verify"], sstate, x.dev,
                 Logged(PollThread, CmdOps(WriteCmd("MODE", PyStr(<<"S", "T", "D">>)))))

\* self.cmd("MODE"), the reply is not looked at
esm_verify ==
    /\ poll.pc = "esm_verify"
    /\ \E x \in Exchanges(dev, ReadCmd("MODE")) :
        PollStep([poll EXCEPT !.pc = "read_function"], sstate, x.dev,
                 Logged(PollThread, CmdOps(ReadCmd("MODE"))))

\* func_val = pam.read_function(); None: sleep and continue; func =
\* int(func_val), the locals are set to None, and the branch is taken
poll_function ==
    /\ poll.pc = "read_function"
    /\ \E x \in Exchanges(dev, ReadCmd("FUNCTION")) :
        LET func_val == extract_number(x.reply)
            func == PyInt(IntOfFloat(func_val))
        IN  PollStep(IF func_val = PyNone
                     THEN [poll EXCEPT !.pc = "top", !.n = @ + 1]
                     ELSE [poll EXCEPT !.func = func, !.mode_a = PyNone,
                              !.mode_b = PyNone, !.wa = PyNone, !.wb = PyNone,
                              !.ia = PyNone, !.ib = PyNone, !.k = 1,
                              !.pc = IF func \in {PyInt(195), PyInt(196)}
                                     THEN "read" ELSE "update"],
                     sstate, x.dev, Logged(PollThread, CmdOps(ReadCmd("FUNCTION"))))

\* the next safe_execution read of the branch
poll_read ==
    /\ poll.pc = "read"
    /\ LET item == Reads(poll.func)[poll.k]
       IN  \E x \in Exchanges(dev, ReadCmd(item.cmd)) :
             PollStep([poll EXCEPT ![item.var] = Parsed(item.var, x.reply),
                          !.k = IF poll.k = Len(Reads(poll.func)) THEN 0 ELSE poll.k + 1,
                          !.pc = IF poll.k = Len(Reads(poll.func)) THEN "ready" ELSE "read"],
                      sstate, x.dev, Logged(PollThread, CmdOps(ReadCmd(item.cmd))))

\* ready = safe_execution(pam.get_ready_status): the call
poll_ready ==
    /\ poll.pc = "ready"
    /\ poll' = [poll EXCEPT !.pc = "ready_wait"]
    /\ drv' = [drv EXCEPT ![PollThread] = get_ready_status_call]
    /\ UNCHANGED <<procVars, h, verify_attr, sstate, dev, log, ncalls, ble, ms, ser>>

\* get_ready_status has returned
poll_ready_ret ==
    /\ poll.pc = "ready_wait"
    /\ drv[PollThread].pc = "done"
    /\ poll' = [poll EXCEPT !.pc = "update", !.ready = drv[PollThread].ret]
    /\ drv' = [drv EXCEPT ![PollThread] = DrvIdle]
    /\ UNCHANGED <<procVars, h, verify_attr, sstate, dev, log, ncalls, ble, ms, ser>>

\* state.update(...) of the branch, time.sleep(MAIN_LOOP_DELAY), and round again
poll_update ==
    /\ poll.pc = "update"
    /\ PollStep([poll EXCEPT !.pc = "top", !.n = @ + 1],
                update(sstate, PollKwargs(poll)), dev, log)

PollerStep ==
    \/ \E due \in BOOLEAN : poll_top(due)
    \/ esm_mode
    \/ esm_set
    \/ esm_verify
    \/ poll_function
    \/ poll_read
    \/ poll_ready
    \/ grs_status(PollThread)
    \/ grs_function(PollThread)
    \/ grs_fault(PollThread)
    \/ poll_ready_ret
    \/ poll_update

\* a BLE client has the serializer change the function
PollSubmit(new_mode) ==
    /\ Len(call) < MaxPollCmds
    /\ submit("change_mode", Dict1("mode", PyInt(new_mode)), FALSE)

NextPoll ==
    \/ PollerStep
    \/ \E new_mode \in {195, 196} : PollSubmit(new_mode)
    \/ WorkerDequeue
    \/ WorkerDeliver
    \/ cm_start(WorkerThread) \/ cm_set(WorkerThread) \/ cm_wait(WorkerThread)
    \/ cm_read_a(WorkerThread) \/ cm_write_a(WorkerThread) \/ cm_write_b(WorkerThread)
    \/ cm_save(WorkerThread) \/ cm_verify_a(WorkerThread) \/ cm_verify_b(WorkerThread)
    \/ cm_publish(WorkerThread) \/ clear(WorkerThread)
    \/ cpf_write(WorkerThread) \/ cpf_ia(WorkerThread) \/ cpf_ib(WorkerThread)
    \/ cpf_save(WorkerThread) \/ cpf_verify(WorkerThread)

InitPoll ==
    /\ queue = <<>>
    /\ running = TRUE
    /\ call = <<>>
    /\ respq = <<>>
    /\ started = <<>>
    /\ h = [t \in Threads |-> IdleFrame]
    /\ drv = [t \in Threads |-> DrvIdle]
    /\ verify_attr = "unset"
    /\ sstate = StateInit
    /\ dev \in { [d EXCEPT !.func = f, !.exp = e, !.lossy = l] :
                   d \in DevInit, f \in {195, 196, 197}, e \in BOOLEAN, l \in BOOLEAN }
    /\ log = [t \in Threads |-> <<>>]
    /\ ncalls = 0
    /\ ble = BleInit
    /\ poll = PollInit
    /\ ms = MsInit
    /\ ser = SerInit

SpecPoll == InitPoll /\ [][NextPoll]_vars

(***************************************************************************)
(* SpecCurrent: one thread that runs SetCurrent handlers and calls          *)
(* set_current_value itself, with values, channels and modes of every      *)
(* kind, on a driver whose verify_writes was set to on, to off, or never.  *)
(***************************************************************************)
MaxCurrentCalls == 2

CurrentValues ==
    {PyInt(499), PyInt(500), PyInt(2600), PyInt(2601), PyStr(<<"1", "0", "0", "0">>),
     PyFloat(FALSE, 1000, <<>>), PyNone}

CurrentChannels == {ChanA, ChanB, PyStr(<<"a">>), PyStr(<<"b">>), PyStr(<<"C">>), PyNone}

\* the mode parameter of a SetCurrent command
CurrentModes == {PyInt(195), PyInt(196), PyInt(197), PyStr(IntText(195)), PyNone}

\* the mode argument of set_current_value
DriverModes == {PyStr(IntText(195)), PyStr(IntText(196)), PyStr(IntText(197))}

CurrentIdle ==
    /\ h[DirectThread].pc \in {"idle", "ret"}
    /\ drv[DirectThread].pc \in {"idle", "done"}
    /\ ncalls < MaxCurrentCalls

\* _handle_set_current is entered with a command
CurrentInvoke(mode, channel, value) ==
    /\ CurrentIdle
    /\ h' = [h EXCEPT ![DirectThread] =
                StartFrame(Command(ncalls + 1, "set_current",
                                   Params(mode, PyNone, channel, value), FALSE))]
    /\ drv' = [drv EXCEPT ![DirectThread] = DrvIdle]
    /\ log' = [log EXCEPT ![DirectThread] = <<>>]
    /\ ncalls' = ncalls + 1
    /\ UNCHANGED <<procVars, verify_attr, sstate, dev, ble, sideVars>>

\* set_current_value is called on the driver
CurrentDriverInvoke(value, channel, mode) ==
    /\ CurrentIdle
    /\ h' = [h EXCEPT ![DirectThread] = IdleFrame]
    /\ drv' = [drv EXCEPT ![DirectThread] = set_current_value_call(value, channel, mode)]
    /\ log' = [log EXCEPT ![DirectThread] = <<>>]
    /\ ncalls' = ncalls + 1
    /\ UNCHANGED <<procVars, verify_attr, sstate, dev, ble, sideVars>>

CurrentStep ==
    \/ \E m \in CurrentModes, c \in CurrentChannels, v \in CurrentValues :
          CurrentInvoke(m, c, v)
    \/ \E v \in CurrentValues, c \in CurrentChannels, m \in DriverModes :
          CurrentDriverInvoke(v, c, m)
    \/ \E v \in {"on", "off"} : set_verify_writes(v)
    \/ sc_start(DirectThread) \/ sc_set(DirectThread) \/ sc_wait(DirectThread)
    \/ clear(DirectThread)
    \/ scv_write(DirectThread) \/ scv_save(DirectThread) \/ scv_verify(DirectThread)

SpecCurrent == Init /\ [][CurrentStep]_vars

(***************************************************************************)
(* SpecAin: one thread that runs ChangeMode and SetAinMode handlers one    *)
(* after the other, so that a SetAinMode finds FUNC unknown, 195 or 196 in *)
(* the shared state, on a link that loses traffic or on one that does not. *)
(***************************************************************************)
MaxAinCalls == 2

AinInvoke(unit, channel) ==
    /\ h[DirectThread].pc \in {"idle", "ret"}
    /\ ncalls < MaxAinCalls
    /\ h' = [h EXCEPT ![DirectThread] =
                StartFrame(Command(ncalls + 1, "set_ain_mode",
                                   Params(PyNone, unit, channel, PyNone), FALSE))]
    /\ drv' = [drv EXCEPT ![DirectThread] = DrvIdle]
    /\ log' = [log EXCEPT ![DirectThread] = <<>>]
    /\ ncalls' = ncalls + 1
    /\ UNCHANGED <<procVars, verify_attr, sstate, dev, ble, sideVars>>

AinStep ==
    \/ \E new_mode \in {195, 196} : ncalls < MaxAinCalls /\ ModeInvoke(new_mode)
    \/ \E unit \in {UnitV, UnitC, PyStr(<<"X">>)}, channel \in {ChanA, ChanB} :
          AinInvoke(unit, channel)
    \/ cm_start(DirectThread) \/ cm_set(DirectThread) \/ cm_wait(DirectThread)
    \/ cm_read_a(DirectThread) \/ cm_write_a(DirectThread) \/ cm_write_b(DirectThread)
    \/ cm_save(DirectThread) \/ cm_verify_a(DirectThread) \/ cm_verify_b(DirectThread)
    \/ cm_publish(DirectThread) \/ clear(DirectThread)
    \/ cpf_write(DirectThread) \/ cpf_ia(DirectThread) \/ cpf_ib(DirectThread)
    \/ cpf_save(DirectThread) \/ cpf_verify(DirectThread)
    \/ am_start(DirectThread) \/ am_both(DirectThread) \/ am_wait_a(DirectThread)
    \/ am_wait_b(DirectThread) \/ am_one(DirectThread) \/ am_wait(DirectThread)
    \/ cam_write(DirectThread) \/ cam_save(DirectThread) \/ cam_verify(DirectThread)

SpecAin == InitModes /\ [][AinStep]_vars

\* the same handlers on a device whose two AIN channels start with one unit,
\* the shared state not yet written by anybody
SpecAgree == Init /\ [][AinStep]_vars

(***************************************************************************)
(* SpecSerial: SerialReconnect (utils/serial_reconnect.py) and             *)
(* PAMController.cmd on top of it.  Every call on the pyserial handle,     *)
(* and every serial.Serial(...) that opens one, either works or raises;    *)
(* MaxFaults bounds how many of them raise.  A handle is its number: 1 is  *)
(* the one the constructor opened, each successful open makes the next.    *)
(***************************************************************************)
MaxFaults == 3
MaxSerialOps == 2
MaxSerialCmds == 1

\* the methods and the property of SerialReconnect that touch the handle
SerialOps == {"write", "read", "read_all", "reset_input_buffer", "flush", "in_waiting"}

\* whether a call on the handle may raise now
MayFault(fault) == fault => ser.faults < MaxFaults

Faulted(fault) == IF fault THEN ser.faults + 1 ELSE ser.faults

SerFrame(r) ==
    /\ ser' = r
    /\ UNCHANGED <<procVars, execVars, ncalls, ble, poll, ms>>

\* the operation `op` is entered by `caller`
SerEnter(r, op, caller) ==
    [r EXCEPT !.pc = "try", !.op = op, !.caller = caller, !.on = <<>>, !.closes = 0,
              !.attempts = 0, !.out = "none"]

\* a caller other than cmd calls an operation
SerCall(op) ==
    /\ ser.pc = "idle"
    /\ ser.cpc = "none"
    /\ ser.nops < MaxSerialOps
    /\ SerFrame(SerEnter(ser, op, "direct"))

\* whether the except clause of `op` calls _reopen and tries again:
\* in_waiting has `except Exception: return 0`
Reopens(op) == op # "in_waiting"

\* try: with self._lock: self.ser.<op>(...)
ser_try(fault, some) ==
    /\ ser.pc = "try"
    /\ MayFault(fault)
    /\ some => (ser.op = "in_waiting" /\ ~fault)
    /\ SerFrame([ser EXCEPT !.on = Append(@, ser.handle),
                    !.faults = Faulted(fault),
                    !.pc = IF ~fault THEN "returned"
                           ELSE IF Reopens(ser.op) THEN "close" ELSE "returned",
                    !.out = IF fault THEN (IF Reopens(ser.op) THEN "none" ELSE "zero")
                            ELSE IF ser.op = "in_waiting"
                                 THEN (IF some THEN "some" ELSE "zero")
                            ELSE "value"])

\* _reopen: self.ser.close(), whose exception is swallowed
ser_close(fault) ==
    /\ ser.pc = "close"
    /\ MayFault(fault)
    /\ SerFrame([ser EXCEPT !.pc = "open", !.closes = @ + 1, !.isopen = FALSE,
                    !.faults = Faulted(fault)])

\* _open: serial.Serial(...) in a loop that sleeps and goes round on failure
ser_open(fault) ==
    /\ ser.pc = "open"
    /\ MayFault(fault)
    /\ SerFrame(IF fault
                THEN [ser EXCEPT !.attempts = @ + 1, !.faults = @ + 1]
                ELSE [ser EXCEPT !.handle = @ + 1, !.isopen = TRUE, !.pc = "retry"])

\* after _reopen: with self._lock: self.ser.<op>(...), outside any try
ser_retry(fault) ==
    /\ ser.pc = "retry"
    /\ MayFault(fault)
    /\ SerFrame([ser EXCEPT !.on = Append(@, ser.handle),
                    !.faults = Faulted(fault),
                    !.pc = IF fault THEN "raised" ELSE "returned",
                    !.out = IF fault THEN "raise" ELSE "value"])

\* the operation is over for a caller other than cmd
SerReturn ==
    /\ ser.pc \in {"returned", "raised"}
    /\ ser.caller = "direct"
    /\ SerFrame([ser EXCEPT !.pc = "idle", !.nops = @ + 1])

\* PAMController.cmd: self.ser.reset_input_buffer()
cmd_begin ==
    /\ ser.pc = "idle"
    /\ ser.cpc = "none"
    /\ ser.ncmds < MaxSerialCmds
    /\ SerFrame([SerEnter(ser, "reset_input_buffer", "cmd") EXCEPT
                    !.cpc = "reset", !.cret = "none"])

\* an operation raised inside cmd's try: except Exception: return ""
cmd_except ==
    /\ ser.pc = "raised"
    /\ ser.caller = "cmd"
    /\ SerFrame([ser EXCEPT !.pc = "idle", !.cpc = "ret", !.cret = "empty"])

\* self.ser.write((command + "\r\n").encode())
cmd_write ==
    /\ ser.pc = "returned"
    /\ ser.caller = "cmd"
    /\ ser.cpc = "reset"
    /\ SerFrame([SerEnter(ser, "write", "cmd") EXCEPT !.cpc = "write"])

\* while time.time() - start < timeout: if self.ser.in_waiting: the loop
\* is entered after the write, and again after a read that did not end
\* with the prompt or an in_waiting of 0
cmd_wait ==
    /\ ser.pc = "returned"
    /\ ser.caller = "cmd"
    /\ \/ ser.cpc \in {"write", "read"}
       \/ ser.cpc = "wait" /\ ser.out = "zero"
    /\ SerFrame([SerEnter(ser, "in_waiting", "cmd") EXCEPT !.cpc = "wait"])

\* chunk = self.ser.read(self.ser.in_waiting): in_waiting is evaluated
\* once more for the size
cmd_size ==
    /\ ser.pc = "returned"
    /\ ser.caller = "cmd"
    /\ ser.cpc = "wait"
    /\ ser.out = "some"
    /\ SerFrame([SerEnter(ser, "in_waiting", "cmd") EXCEPT !.cpc = "size"])

\* self.ser.read(<size>)
cmd_read ==
    /\ ser.pc = "returned"
    /\ ser.caller = "cmd"
    /\ ser.cpc = "size"
    /\ SerFrame([SerEnter(ser, "read", "cmd") EXCEPT !.cpc = "read"])

\* the prompt has come, or the 200 ms are over:
\* return response.decode(errors="ignore")
cmd_decode ==
    /\ ser.pc = "returned"
    /\ ser.caller = "cmd"
    /\ ser.cpc \in {"write", "wait", "read"}
    /\ SerFrame([ser EXCEPT !.pc = "idle", !.cpc = "ret", !.cret = "text"])

\* cmd has returned to its caller
cmd_return ==
    /\ ser.cpc = "ret"
    /\ SerFrame([ser EXCEPT !.cpc = "none", !.caller = "none", !.ncmds = @ + 1])

SerialStep ==
    \/ \E op \in SerialOps : SerCall(op)
    \/ \E fault \in BOOLEAN, some \in BOOLEAN : ser_try(fault, some)
    \/ \E fault \in BOOLEAN : ser_close(fault)
    \/ \E fault \in BOOLEAN : ser_open(fault)
    \/ \E fault \in BOOLEAN : ser_retry(fault)
    \/ SerReturn
    \/ cmd_begin
    \/ cmd_except
    \/ cmd_write
    \/ cmd_wait
    \/ cmd_size
    \/ cmd_read
    \/ cmd_decode
    \/ cmd_return

SpecSerial == Init /\ [][SerialStep]_vars

(***************************************************************************)
(* SpecLink: PAMController.cmd called by the polling loop and by the       *)
(* worker on the one SerialReconnect.  Each operation on the handle is one *)
(* step, made under _lock; the device answers a command as soon as it is   *)
(* written, and every byte in the input buffer carries the command it      *)
(* answers: the thread that wrote it and the number of its command.        *)
(***************************************************************************)
\* the cmd calls of each thread in one behaviour of SpecLink
MaxLinkCmds == 2

\* what the device sends for the command `tag`: a value and the prompt
LinkReply(tag) == << [of |-> tag, ch |-> "v"], [of |-> tag, ch |-> ">"] >>

LkFrame(t, f, buf) ==
    SerFrame([ser EXCEPT !.lk[t] = f, !.inbuf = buf])

\* serial.Serial.reset_input_buffer(): what is left in the buffer
ResetInput(buf) == <<>>

\* self.ser.reset_input_buffer()
lk_reset(t) ==
    /\ ser.lk[t].pc = "idle"
    /\ ser.lk[t].k < MaxLinkCmds
    /\ LkFrame(t, [ser.lk[t] EXCEPT !.pc = "write", !.k = @ + 1, !.response = <<>>],
               ResetInput(ser.inbuf))

\* self.ser.write((command + "\r\n").encode()), and the device's answer
lk_write(t) ==
    /\ ser.lk[t].pc = "write"
    /\ LkFrame(t, [ser.lk[t] EXCEPT !.pc = "loop"],
               ser.inbuf \o LinkReply(<<t, ser.lk[t].k>>))

\* `if self.ser.in_waiting:` finds bytes; finding none it sleeps and looks
\* again
lk_waiting(t) ==
    /\ ser.lk[t].pc = "loop"
    /\ ser.inbuf # <<>>
    /\ LkFrame(t, [ser.lk[t] EXCEPT !.pc = "size"], ser.inbuf)

\* the argument of the read: self.ser.in_waiting once more
lk_size(t) ==
    /\ ser.lk[t].pc = "size"
    /\ LkFrame(t, [ser.lk[t] EXCEPT !.pc = "read", !.size = Len(ser.inbuf)], ser.inbuf)

\* chunk = self.ser.read(size); response += chunk; a prompt ends the loop
lk_read(t) ==
    /\ ser.lk[t].pc = "read"
    /\ LET n == Min(ser.lk[t].size, Len(ser.inbuf))
           chunk == SubSeq(ser.inbuf, 1, n)
           response == ser.lk[t].response \o chunk
       IN  LkFrame(t, [ser.lk[t] EXCEPT
                          !.response = response,
                          !.pc = IF \E i \in 1..n : chunk[i].ch = ">"
                                 THEN "ret" ELSE "loop"],
                   SubSeq(ser.inbuf, n + 1, Len(ser.inbuf)))

\* the 200 ms are over
lk_timeout(t) ==
    /\ ser.lk[t].pc = "loop"
    /\ LkFrame(t, [ser.lk[t] EXCEPT !.pc = "ret"], ser.inbuf)

\* return response.decode(errors="ignore")
lk_return(t) ==
    /\ ser.lk[t].pc = "ret"
    /\ LkFrame(t, [ser.lk[t] EXCEPT !.pc = "idle"], ser.inbuf)

LinkStep ==
    \E t \in LinkThreads :
        \/ lk_reset(t) \/ lk_write(t) \/ lk_waiting(t) \/ lk_size(t)
        \/ lk_read(t) \/ lk_timeout(t) \/ lk_return(t)

SpecLink == Init /\ [][LinkStep]_vars

(***************************************************************************)
(* SpecStop: the worker's loop with its two steps apart, the test of       *)
(* `running` and the get that follows it, beside callers that submit and a *)
(* thread that calls stop().  (Where running is never cleared the two are  *)
(* one step, WorkerDequeue.)                                               *)
(***************************************************************************)
\* submit calls made in one behaviour of SpecStop
MaxStopCmds == 2

\* CommandProcessor.stop
stop ==
    /\ running
    /\ running' = FALSE
    /\ UNCHANGED <<queue, call, respq, started, execVars, ncalls, ble, sideVars>>

WorkerAt(pc) == [h EXCEPT ![WorkerThread] = [IdleFrame EXCEPT !.pc = pc]]

\* a loop that never looks at the flag, against which C36 is tested
loop_check_ignores_stop ==
    /\ h[WorkerThread].pc = "idle"
    /\ h' = WorkerAt("get")
    /\ UNCHANGED <<procVars, drv, verify_attr, sstate, dev, log, ncalls, ble, sideVars>>

\* `while self.running:`
loop_check ==
    /\ h[WorkerThread].pc = "idle"
    /\ h' = WorkerAt(IF running THEN "get" ELSE "exited")
    /\ UNCHANGED <<procVars, drv, verify_attr, sstate, dev, log, ncalls, ble, sideVars>>

\* cmd = self.command_queue.get(timeout=0.5) returns a command, and
\* _execute_command(cmd) enters its handler
loop_get ==
    /\ h[WorkerThread].pc = "get"
    /\ queue # <<>>
    /\ queue' = Dequeue(queue).rest
    /\ started' = Append(started, Dequeue(queue).cmd.id)
    /\ h' = [h EXCEPT ![WorkerThread] = StartFrame(Dequeue(queue).cmd)]
    /\ UNCHANGED <<running, call, respq, drv, verify_attr, sstate, dev,
                   log, ncalls, ble, sideVars>>

\* the get raises queue.Empty after its half second: `continue`
loop_empty ==
    /\ h[WorkerThread].pc = "get"
    /\ queue = <<>>
    /\ h' = WorkerAt("idle")
    /\ UNCHANGED <<procVars, drv, verify_attr, sstate, dev, log, ncalls, ble, sideVars>>

\* the commands the callers of SpecStop submit
StopChoices ==
    { [type |-> "change_mode", params |-> Dict1("mode", PyInt(195))],
      [type |-> "get_status", params |-> EmptyDict] }

StopCallerStep ==
    \/ \E c \in StopChoices, wait \in BOOLEAN :
          /\ Len(call) < MaxStopCmds
          /\ submit(c.type, c.params, wait)
    \/ \E id \in 1..Len(call) : SubmitGet(id)
    \/ \E id \in 1..Len(call) : SubmitTimeout(id)

StopWorkerStep ==
    \/ loop_check \/ loop_get \/ loop_empty
    \/ WorkerDeliver
    \/ gs_start(WorkerThread)
    \/ cm_start(WorkerThread) \/ cm_set(WorkerThread) \/ cm_wait(WorkerThread)
    \/ clear(WorkerThread)
    \/ cpf_write(WorkerThread) \/ cpf_ia(WorkerThread) \/ cpf_ib(WorkerThread)
    \/ cpf_save(WorkerThread) \/ cpf_verify(WorkerThread)

NextStop ==
    \/ stop
    \/ StopCallerStep
    \/ StopWorkerStep

SpecStop == Init /\ [][NextStop]_vars

\* the worker runs whenever it can, and a waiting caller's get returns
FairSpecStop ==
    /\ SpecStop
    /\ WF_vars(StopWorkerStep)
    /\ \A id \in 1..MaxStopCmds : WF_vars(SubmitGet(id) \/ SubmitTimeout(id))

(***************************************************************************)
(* SpecBle: Characteristic.WriteValue (ble/gatt_server.py).  Every write   *)
(* that leads to a command starts a thread of its own, which calls the     *)
(* driver; thread i is the one the i-th write leads to.                    *)
(***************************************************************************)
BleFrame(pc, i, type, params) ==
    [IdleFrame EXCEPT !.pc = pc, !.cmd = Command(i, type, params, FALSE)]

\* _process_ain_command for the k-th of the pending commands, after a mode
\* change to `target`: 195 has channel A only, 196 takes A and B in turn
PendingChannel(target, k) ==
    IF target = 195 THEN ChanA ELSE IF k % 2 = 1 THEN ChanA ELSE ChanB

\* last_ain_channel after n commands were processed
ChannelAfter(last, target, n) ==
    IF target = 195 THEN last
    ELSE IF n % 2 = 0 THEN last
    ELSE IF last = ChanA THEN ChanB ELSE ChanA

\* 'Voltage'[0], 'Current'[0]
FirstLetter(mode_type) == IF mode_type = "Voltage" THEN UnitV ELSE UnitC

BleSpawn(i) ==
    /\ ble.nwrites < MaxBleWrites
    /\ i = ble.nwrites + 1

\* received "195" or "196": write_lock.set(), start execute_mode_command
WriteValueMode(target) ==
    \E i \in 1..MaxBleWrites :
        /\ BleSpawn(i)
        /\ ble' = [ble EXCEPT !.write_lock = TRUE, !.nwrites = i]
        /\ h' = [h EXCEPT ![BleThread(i)] =
                    BleFrame("ble_mode_wait", i, "change_mode", Dict1("mode", PyInt(target)))]
        /\ drv' = [drv EXCEPT ![BleThread(i)] = change_pam_function_call(PyInt(target))]
        /\ UNCHANGED <<procVars, verify_attr, sstate, dev, log, ncalls, sideVars>>

\* execute_mode_command, after change_pam_function returned
ble_mode_wait(t) ==
    /\ h[t].pc = "ble_mode_wait"
    /\ drv[t].pc = "done"
    /\ LET target == h[t].cmd.params["mode"].v
           pend == ble.ain_command_queue.items
           spawned(x) == \E k \in 1..Len(pend) : BleThread(pend[k].idx) = x
           place(x) == CHOOSE k \in 1..Len(pend) : BleThread(pend[k].idx) = x
       IN  IF drv[t].ret
           THEN /\ ble' = [ble EXCEPT
                      !.last_mode_command = PyInt(target),
                      !.last_ain_channel =
                          IF target = 196
                          THEN ChannelAfter(ChanA, target, Len(pend))
                          ELSE ble.last_ain_channel,
                      !.ain_command_queue = IF pend = <<>> THEN @ ELSE Attr(<<>>),
                      !.write_lock = FALSE]
                /\ h' = [x \in Threads |->
                           IF x = t THEN IdleFrame
                           ELSE IF spawned(x)
                           THEN BleFrame("ble_ain_wait", pend[place(x)].idx, "set_ain_mode",
                                         Dict1("unit", FirstLetter(pend[place(x)].mode_type)))
                           ELSE h[x]]
                /\ drv' = [x \in Threads |->
                           IF x = t THEN DrvIdle
                           ELSE IF spawned(x)
                           THEN change_pam_ain_mode_call(
                                    FirstLetter(pend[place(x)].mode_type),
                                    PendingChannel(target, place(x)))
                           ELSE drv[x]]
           ELSE /\ ble' = [ble EXCEPT
                      !.ain_command_queue = IF @.has THEN Attr(<<>>) ELSE @,
                      !.write_lock = FALSE]
                /\ h' = [h EXCEPT ![t] = IdleFrame]
                /\ drv' = [drv EXCEPT ![t] = DrvIdle]
    /\ UNCHANGED <<procVars, verify_attr, sstate, dev, log, ncalls, sideVars>>

\* received "VOLTAGE" or "CURRENT": queued until a mode change succeeded,
\* else _process_ain_command starts execute_ain_command
WriteValueAin(mode_type) ==
    \E i \in 1..MaxBleWrites :
        /\ BleSpawn(i)
        /\ IF ble.last_mode_command = PyNone
           THEN /\ ble' = [ble EXCEPT
                      !.nwrites = i,
                      !.ain_command_queue =
                          Attr(Append(@.items, [mode_type |-> mode_type, idx |-> i]))]
                /\ UNCHANGED <<h, drv>>
           ELSE LET target == ble.last_mode_command.v
                    last == IF ble.last_ain_channel = PyNone THEN ChanA
                            ELSE ble.last_ain_channel
                    channel == IF target = 195 THEN ChanA ELSE last
                IN  /\ ble' = [ble EXCEPT
                          !.nwrites = i, !.write_lock = TRUE,
                          !.last_ain_channel =
                              IF target = 195 THEN @ ELSE ChannelAfter(last, target, 1)]
                    /\ h' = [h EXCEPT ![BleThread(i)] =
                                BleFrame("ble_ain_wait", i, "set_ain_mode",
                                         Dict1("unit", FirstLetter(mode_type)))]
                    /\ drv' = [drv EXCEPT ![BleThread(i)] =
                                change_pam_ain_mode_call(FirstLetter(mode_type), channel)]
        /\ UNCHANGED <<procVars, verify_attr, sstate, dev, log, ncalls, sideVars>>

\* execute_ain_command and execute_current_command, after the driver
\* returned: the finally clears write_lock (the read-back of a successful
\* current command calls get_current_status with an argument it does not
\* take, which raises into the except)
ble_end(t) ==
    /\ h[t].pc \in {"ble_ain_wait", "ble_cur_wait"}
    /\ drv[t].pc = "done"
    /\ ble' = [ble EXCEPT !.write_lock = FALSE]
    /\ h' = [h EXCEPT ![t] = IdleFrame]
    /\ drv' = [drv EXCEPT ![t] = DrvIdle]
    /\ UNCHANGED <<procVars, verify_attr, sstate, dev, log, ncalls, sideVars>>

\* received "CUR:<value>:<fun>", "CURA:..." or "CURB:...": the value must
\* lie in 0..5000, then execute_current_command starts
WriteValueCur(channel, value, fun) ==
    \E i \in 1..MaxBleWrites :
        /\ BleSpawn(i)
        /\ IF value < 0 \/ value > 5000
           THEN /\ ble' = [ble EXCEPT !.nwrites = i]
                /\ UNCHANGED <<h, drv>>
           ELSE /\ ble' = [ble EXCEPT !.nwrites = i, !.write_lock = TRUE]
                /\ h' = [h EXCEPT ![BleThread(i)] =
                            BleFrame("ble_cur_wait", i, "set_current",
                                     Dict1("value", PyInt(value)))]
                /\ drv' = [drv EXCEPT ![BleThread(i)] =
                            set_current_value_call(PyInt(value), channel, fun)]
        /\ UNCHANGED <<procVars, verify_attr, sstate, dev, log, ncalls, sideVars>>

NextBle ==
    \/ \E target \in {195, 196} : WriteValueMode(target)
    \/ \E mode_type \in {"Voltage", "Current"} : WriteValueAin(mode_type)
    \/ \E channel \in {ChanA, ChanB}, value \in {1000, 6000},
          fun \in {PyStr(IntText(195)), PyStr(IntText(196)), PyNone} :
            WriteValueCur(channel, value, fun)
    \/ \E t \in BleThreads : ble_mode_wait(t)
    \/ \E t \in BleThreads : ble_end(t)
    \/ \E t \in BleThreads : DriverStep(t)

SpecBle == Init /\ [][NextBle]_vars

(***************************************************************************)
(* The properties.                                                         *)
(***************************************************************************)
\* the ids of the commands waiting in the queue, oldest first
QueuedIds == [i \in 1..Len(queue) |-> queue[i].id]

\* the ids of the submit calls that put their command in the queue, in the
\* order of the calls
AcceptedIds ==
    SelectSeq([i \in 1..Len(call) |-> i],
              LAMBDA i : call[i].result.message # "Command queue full")

IsPrefix(a, b) == Len(a) <= Len(b) /\ a = SubSeq(b, 1, Len(a))

\* thread t wrote FUNCTION <n> to the link in its current invocation
WroteFunction(t) ==
    \E i \in 1..Len(log[t]) :
        /\ log[t][i][1] = "write"
        /\ log[t][i][2].name = "FUNCTION"
        /\ log[t][i][2].arg # PyNone

\* thread t is inside a mutating method of the driver and has used the link
InFlight(t) == DrvBusy(t) /\ drv[t].fn \in MutatingFns /\ log[t] # <<>>

\* C1: whenever a ChangeMode handler has returned, by whatever path (success,
\* invalid mode, failed verification, a fault in the driver or the handler),
\* is_in_transition() is false.
C1_FlagClearAfterChangeMode ==
    \A t \in Threads :
        (h[t].pc = "ret" /\ h[t].cmd.type = "change_mode") => ~is_in_transition(sstate)

\* C1's case: a ChangeMode that raised the flag, wrote to the link and failed
C1_Witness ==
    /\ h[DirectThread].pc = "ret"
    /\ h[DirectThread].cmd.type = "change_mode"
    /\ h[DirectThread].result.message = "Mode change failed"
    /\ log[DirectThread] # <<>>

\* C2: at most one thread is inside a mutating method of the driver with
\* traffic on the link, whatever the remote callers do.
C2_SingleWriter ==
    \A t1, t2 \in Threads : (InFlight(t1) /\ InFlight(t2)) => t1 = t2

\* C3: the worker begins the accepted commands in the order of their
\* submission, and begins one only when it runs no handler: the commands
\* begun, followed by those waiting, are the accepted ones in order.
C3_FifoOneAtATime ==
    /\ [](/\ started \o QueuedIds = AcceptedIds
          /\ h[WorkerThread].pc # "idle" =>
                h[WorkerThread].cmd.id = started[Len(started)])
    /\ [][started' # started =>
            /\ h[WorkerThread].pc = "idle"
            /\ started' = Append(started, h'[WorkerThread].cmd.id)]_vars

\* C3's case: two commands were submitted, the handler of the first has
\* returned and the worker is running the handler of the second
C3_Witness ==
    /\ Len(started) = 2
    /\ Len(call) = 2
    /\ h[WorkerThread].pc \notin {"idle", "ret"}
    /\ h[WorkerThread].cmd.id = 2

\* C4: the queue never holds more than 50 commands, and a submit that finds
\* it full leaves it as it is and has returned "Command queue full", a
\* failure, whether or not the caller asked to wait.
C4_QueueFullRejected ==
    /\ [](Len(queue) <= 50)
    /\ [][(Len(call') = Len(call) + 1 /\ Len(queue) >= 50) =>
            /\ queue' = queue
            /\ call'[Len(call')].status = "returned"
            /\ ~call'[Len(call')].result.success
            /\ call'[Len(call')].result.message = "Command queue full"]_vars

\* C4's case: a waiting submit was rejected with fifty commands in the queue
C4_Witness ==
    /\ Len(queue) = 50
    /\ \E id \in DOMAIN call :
          /\ call[id].wait
          /\ call[id].status = "returned"
          /\ call[id].result.message = "Command queue full"

\* C5: a waiting submit whose response queue stays empty returns a failed
\* "Command timeout", and every waiting submit returns.
C5_WaitTimesOut ==
    /\ [][\A id \in DOMAIN call :
            (call[id].status = "waiting" /\ call'[id].status = "returned"
                /\ respq[id] = <<>>) =>
            /\ ~call'[id].result.success
            /\ call'[id].result.message = "Command timeout"]_vars
    /\ \A id \in 1..MaxCmds :
          (id \in DOMAIN call /\ call[id].status = "waiting")
              ~> (id \in DOMAIN call /\ call[id].status = "returned")

\* C5's case: a submit timed out while its command had not been executed
C5_Witness ==
    \E id \in DOMAIN call :
        /\ call[id].wait
        /\ call[id].status = "returned"
        /\ call[id].result.message = "Command timeout"
        /\ respq[id] = <<>>

\* C6: the command of a timed-out submit is still in the queue or has been
\* begun by the worker, the worker executes it and puts its result on the
\* response queue, and there the result stays: what a caller was returned
\* never changes, and nobody takes a result from the queue of a returned call.
C6_TimeoutDoesNotCancel ==
    /\ [](\A id \in DOMAIN call :
            call[id].result.message = "Command timeout" =>
                \/ \E i \in 1..Len(queue) : queue[i].id = id
                \/ \E i \in 1..Len(started) : started[i] = id)
    /\ [][\A id \in DOMAIN call :
            call[id].status = "returned" =>
                /\ call'[id] = call[id]
                /\ IsPrefix(respq[id], respq'[id])]_vars
    /\ \A id \in 1..MaxCmds :
          (id \in DOMAIN call /\ call[id].result.message = "Command timeout")
              ~> (id \in DOMAIN call /\ respq[id] # <<>>)

\* C6's case: a ChangeMode whose submit timed out has changed the device and
\* the shared state, and its result lies undelivered
C6_Witness ==
    \E id \in DOMAIN call :
        /\ call[id].result.message = "Command timeout"
        /\ respq[id] # <<>>
        /\ Head(respq[id]).message = "Mode changed"
        /\ sstate["FUNC"] = PyInt(196)
        /\ dev.func = 196

\* the messages of the results the except clauses of the handlers make
FaultMessages ==
    {"Mode change error", "AIN mode error", "Current setting error", "Save failed",
     "Status error"}

\* C7: a fault in a handler leaves the worker alive: the fault becomes a
\* failed result, the result is put on the response queue of a waiting
\* submit, and every command in the queue is begun by the worker.
C7_FaultDoesNotStopWorker ==
    /\ [](/\ h[WorkerThread].pc # "dead"
          /\ (h[WorkerThread].pc = "ret"
                 /\ h[WorkerThread].result.message \in FaultMessages)
              => ~h[WorkerThread].result.success)
    /\ [][(h[WorkerThread].pc = "ret" /\ h'[WorkerThread].pc # "ret"
              /\ h[WorkerThread].cmd.wait) =>
            respq'[h[WorkerThread].cmd.id] =
                Append(respq[h[WorkerThread].cmd.id], h[WorkerThread].result)]_vars
    /\ \A id \in 1..MaxCmds :
          (\E i \in 1..Len(queue) : queue[i].id = id)
              ~> (\E i \in 1..Len(started) : started[i] = id)

\* C7's case: the first command faulted, its submitter was returned the
\* failure, and the worker has begun the command submitted after it
C7_Witness ==
    /\ Len(call) = 2
    /\ call[1].status = "returned"
    /\ call[1].result.message \in FaultMessages
    /\ ~call[1].result.success
    /\ started = <<1, 2>>

\* C8: with PIN15 ON, no thread writes FUNCTION to the link.
C8_NoFunctionWhileEnergized ==
    dev.pin15 => \A t \in Threads : ~WroteFunction(t)

\* a mode that is neither 195 nor 196
InvalidMode(m) == m \notin {PyInt(195), PyInt(196)}

\* C9: change_pam_function with a mode outside {195, 196} has returned False
\* with nothing done on the link, and a ChangeMode with such a mode returns
\* a failure in its first step, which does nothing on the link and leaves
\* the shared state (the flag and FUNC with it) as it was.
C9_InvalidModeRejected ==
    /\ [](\A t \in Threads :
            (drv[t].fn = "change_pam_function" /\ InvalidMode(drv[t].new_mode)
                /\ h[t].pc = "idle") =>
            (drv[t].pc = "done" /\ ~drv[t].ret /\ log[t] = <<>>))
    /\ [](\A t \in Threads :
            (h[t].cmd.type = "change_mode" /\ InvalidMode(Param(t, "mode"))) =>
            (log[t] = <<>> /\ h[t].pc \in {"cm_start", "ret"}
                /\ (h[t].pc = "ret" => ~h[t].result.success)))
    /\ [][\A t \in Threads :
            (h[t].cmd.type = "change_mode" /\ InvalidMode(Param(t, "mode"))
                /\ h[t].pc = "cm_start") =>
            (sstate' = sstate /\ dev' = dev)]_vars

\* C9's case: a ChangeMode to 197 was rejected
C9_Witness ==
    /\ h[DirectThread].pc = "ret"
    /\ h[DirectThread].cmd.type = "change_mode"
    /\ Param(DirectThread, "mode") = PyInt(197)
    /\ h[DirectThread].result.message = "Invalid mode"

\* a value SetCurrent must reject: no integer, or outside [500, 2600]
InvalidValue(v) == ~(IsInt(v) /\ 500 <= v.v /\ v.v <= 2600)

CurrentFields == {"CURRENT_STATUS", "CURRENT_A_STATUS", "CURRENT_B_STATUS"}

\* C10: a SetCurrent with a value that is no integer or lies outside
\* [500, 2600] does nothing on the link, changes neither the device nor a
\* CURRENT_* field of the shared state, and returns a failure.
C10_InvalidCurrentRejected ==
    /\ [](\A t \in Threads :
            (h[t].cmd.type = "set_current" /\ InvalidValue(Param(t, "value"))) =>
            (log[t] = <<>> /\ (h[t].pc = "ret" => ~h[t].result.success)))
    /\ [][\A t \in Threads :
            (h[t].cmd.type = "set_current" /\ InvalidValue(Param(t, "value"))
                /\ h[t].pc # "ret") =>
            /\ dev' = dev
            /\ \A k \in CurrentFields : get(sstate', k) = get(sstate, k)]_vars

\* C10's case: a SetCurrent of 2601 mA was rejected
C10_Witness ==
    /\ h[DirectThread].pc = "ret"
    /\ h[DirectThread].cmd.type = "set_current"
    /\ Param(DirectThread, "value") = PyInt(2601)
    /\ h[DirectThread].result.message = "Value out of range"

\* thread t sent command c over the link in its current invocation
Sent(t, c) == \E i \in 1..Len(log[t]) : log[t][i] = <<"write", c>>

\* how often thread t sent command c in its current invocation
TimesSent(t, c) == Cardinality({i \in 1..Len(log[t]) : log[t][i] = <<"write", c>>})

\* C11: on a driver whose verify_writes was never assigned, a
\* set_current_value(v, A, "195") with 500 <= v <= 2600 that has written
\* CURRENT v and SAVE to a device which now holds v has returned True.
C11_SetCurrentSucceeds ==
    \A t \in Threads :
        (/\ drv[t].fn = "set_current_value"
         /\ drv[t].pc = "done"
         /\ verify_attr = "unset"
         /\ drv[t].mode = PyStr(IntText(195))
         /\ IsInt(drv[t].value)
         /\ Sent(t, WriteCmd("CURRENT", drv[t].value))
         /\ Sent(t, SaveCmd)
         /\ dev.cur = drv[t].value.v)
        => drv[t].ret = TRUE

\* C12: a change_pam_function that has read FUNCTION back and returned False
\* has read it back ten times, with SAVE sent twice (once after FUNCTION, once
\* after the fourth mismatch).
C12_TenReadbacks ==
    \A t \in Threads :
        (/\ drv[t].fn = "change_pam_function"
         /\ drv[t].pc = "done"
         /\ drv[t].ret = FALSE
         /\ Sent(t, ReadCmd("FUNCTION")))
        => (/\ TimesSent(t, ReadCmd("FUNCTION")) = 10
            /\ TimesSent(t, SaveCmd) = 2)

\* thread t has a successful ChangeMode from FUNC 195 to 196 about to return
\* or returned
Synced(t) ==
    /\ h[t].cmd.type = "change_mode"
    /\ h[t].pc \in {"clear", "ret"}
    /\ h[t].result.success
    /\ h[t].old_mode = PyInt(195)
    /\ Param(t, "mode") = PyInt(196)

Unsigned16(raw) == ((raw % 65536) + 65536) % 65536

\* thread t has a get_ready_status that returned a decoding under FUNCTION f
Decoded(t, f) ==
    /\ drv[t].fn = "get_ready_status"
    /\ drv[t].pc = "done"
    /\ dev.func = f
    /\ drv[t].ret \notin {PyText("No Data"), PyText("READY Error"), PyNone}

\* a get_ready_status that met no exception, on a link that loses nothing,
\* returns a decoding
DecodesWhenAnswered ==
    \A t \in Threads :
        (drv[t].fn = "get_ready_status" /\ drv[t].pc = "done" /\ ~dev.lossy
            /\ drv[t].ret # PyText("READY Error"))
        => drv[t].ret \notin {PyText("No Data"), PyNone}

\* C14: with FUNCTION 196 the text get_ready_status returns is decided by
\* bits 15 and 14 of the status word taken as an unsigned 16 bit number:
\* both (49152 and up) "A + B ACTIVE", bit 14 alone "A ACTIVE", bit 15 alone
\* "B ACTIVE", neither "ALL OFF"; negative raw values included.
C14_Ready196 ==
    /\ DecodesWhenAnswered
    /\ \A t \in Threads :
        Decoded(t, 196) =>
            LET u == Unsigned16(dev.status)
            IN  drv[t].ret =
                  IF u >= 49152 THEN PyText("A + B ACTIVE")
                  ELSE IF u >= 32768 THEN PyText("B ACTIVE")
                  ELSE IF u >= 16384 THEN PyText("A ACTIVE")
                  ELSE PyText("ALL OFF")

\* C14's case: the raw status -16384 (bits 14 and 15 set) under FUNCTION 196
C14_Witness ==
    /\ Decoded(DirectThread, 196)
    /\ dev.status = -16384
    /\ drv[DirectThread].ret = PyText("A + B ACTIVE")

\* C15: with FUNCTION 195 the text is "ALL OFF" when the status word as an
\* unsigned 16 bit number is 65532, and otherwise decided by bit 8 (A) and
\* bit 7 (B).
C15_Ready195 ==
    \A t \in Threads :
        Decoded(t, 195) =>
            LET u == Unsigned16(dev.status)
                a == (u % 512) >= 256
                b == (u % 256) >= 128
            IN  drv[t].ret =
                  IF u = 65532 THEN PyText("ALL OFF")
                  ELSE IF a /\ b THEN PyText("A + B ACTIVE")
                  ELSE IF b THEN PyText("B ACTIVE")
                  ELSE IF a THEN PyText("A ACTIVE")
                  ELSE PyText("ALL OFF")

\* C15's case: the raw status -4, which is 65532 with bits 7 and 8 set
C15_Witness ==
    /\ Decoded(DirectThread, 195)
    /\ dev.status = -4
    /\ drv[DirectThread].ret = PyText("ALL OFF")

\* C16: a GetStatus uses neither the link nor the driver and leaves the
\* shared state as it is, and the data of its result is the shared state as
\* it is when the handler runs.
C16_GetStatusReadsStateOnly ==
    /\ [](\A t \in Threads :
            h[t].cmd.type = "get_status" => (log[t] = <<>> /\ drv[t] = DrvIdle))
    /\ [][\A t \in Threads :
            h[t].pc = "gs_start" =>
                /\ sstate' = sstate
                /\ dev' = dev
                /\ log' = log
                /\ (h'[t].pc = "ret" /\ h'[t].result.success)
                       => h'[t].result.data = sstate]_vars

\* C16's case: a GetStatus executed after a mode change returned the state
\* with the new FUNC
C16_Witness ==
    /\ h[WorkerThread].pc = "ret"
    /\ h[WorkerThread].cmd.type = "get_status"
    /\ h[WorkerThread].result.success
    /\ h[WorkerThread].result.data = sstate
    /\ get(sstate, "FUNC") = PyInt(196)

\* C18: IN_TRANSITION is true only while the worker is inside the handler of
\* a ChangeMode, SetAinMode or SetCurrent; with the worker idle, or a handler
\* returned by whatever path, it is false.
C18_FlagOnlyInsideHandler ==
    is_in_transition(sstate) =>
        /\ h[WorkerThread].pc \notin {"idle", "ret"}
        /\ h[WorkerThread].cmd.type \in FlagHandlers

\* C18's case: a SetCurrent that wrote to the link and failed has returned
C18_Witness ==
    /\ h[WorkerThread].pc = "ret"
    /\ h[WorkerThread].cmd.type = "set_current"
    /\ h[WorkerThread].result.message = "Failed to set current"
    /\ log[WorkerThread] # <<>>
    /\ ~is_in_transition(sstate)


\* a document as it stands between two calls of update
Whole(d) == d = StateInit \/ \E kw \in UpdateArgs : d = update(StateInit, kw)

\* C17: the mapping get_all hands out is a copy of its own.  As long as its
\* holder has not stored into it, it reads as a document that stood between
\* two updates: every key of an update or none, also while an update is
\* under way.  When the holder stores into it, the document of the
\* MachineState, which is what later get and get_all calls return, stays as
\* it is.
C17_SnapshotIndependent ==
    /\ [](ms.rpc = "have" => Whole(SnapVal(ms.snap, sstate)))
    /\ [][(ms.rpc = "have" /\ ms'.rpc = "stored") => sstate' = sstate]_vars

\* the holder has stored into a snapshot, and an update is half way: its
\* first key is in the document, its second is not
C17_Witness ==
    /\ ms.rpc = "stored"
    /\ ms.wpc = "store"
    /\ ms.i = 2
    /\ ms.snap.val["FUNC"] = PyInt(0)
    /\ sstate["FUNC"] = ms.kwargs["FUNC"]
    /\ sstate["MODE"] # ms.kwargs["MODE"]


\* C19: once FUNC of the shared state is known (not None), it is 195 or 196,
\* whatever the polling loop and the serializer have done.
C19_FuncIs195Or196 ==
    sstate["FUNC"] # PyNone => sstate["FUNC"] \in {PyInt(195), PyInt(196)}

UnitFields == {"MODE", "MODE_A", "MODE_B"}

\* C20: every unit field of the shared state (MODE, MODE_A, MODE_B) that has
\* been set holds V or C, whatever the polling loop and the serializer have
\* done, also after an AIN readback that did not parse.
C20_UnitsAreVOrC ==
    \A k \in UnitFields \cap DOMAIN sstate :
        sstate[k] # PyNone => sstate[k] \in {UnitV, UnitC}


\* C21: every current field of the shared state (CURRENT_STATUS,
\* CURRENT_A_STATUS, CURRENT_B_STATUS) that has been set holds an integer
\* between 500 and 2600, whatever value, channel and mode the SetCurrent
\* commands carried.
C21_CurrentFieldsInRange ==
    \A k \in CurrentFields :
        get(sstate, k) # PyNone =>
            (IsInt(get(sstate, k)) /\ 500 <= get(sstate, k).v /\ get(sstate, k).v <= 2600)

\* a SetCurrent has published 2600 in CURRENT_B_STATUS after one has
\* published 500 in CURRENT_STATUS
C21_Witness ==
    /\ get(sstate, "CURRENT_STATUS") = PyInt(500)
    /\ get(sstate, "CURRENT_B_STATUS") = PyInt(2600)
    /\ h[DirectThread].cmd.type = "set_current"
    /\ h[DirectThread].pc = "ret"


\* C22: an operation of the channel (write, read, read_all,
\* reset_input_buffer, flush, in_waiting) whose call on the handle raised
\* is over only after the handle was closed once, a new handle was opened,
\* and the operation was tried once more, on the new handle.
C22_FailureReconnects ==
    [][(ser.pc = "try" /\ ser'.pc # "try" /\ ser'.faults > ser.faults)
           => ser'.pc = "close"]_vars
    /\ []((ser.pc \in {"returned", "raised"} /\ ser.closes > 0)
           => (ser.closes = 1 /\ Len(ser.on) = 2 /\ ser.on[2] = ser.on[1] + 1
               /\ ser.on[2] = ser.handle))

\* C23: no operation of the channel raises to its caller, whatever faults
\* occur, the retry after a reconnect included; and cmd returns text.
C23_NoFaultSurfaces ==
    /\ ser.pc # "raised"
    /\ ser.cpc = "ret" => ser.cret \in {"text", "empty"}


\* a command that changes the device: one with an argument, or SAVE
Mutating(c) == c.arg # PyNone \/ c.name = "SAVE"

\* C24: the polling loop sends only queries over the PAM link; no command
\* that changes the device (MODE STD, FUNCTION n, AINx u, CURRENT n, IA/IB
\* n, SAVE) comes from it.
C24_PollerReadOnly ==
    \A i \in 1..Len(log[PollThread]) :
        log[PollThread][i][1] = "write" => ~Mutating(log[PollThread][i][2])


\* the submit call id did not wait and its command was put in the queue
AcceptedNoWait(id) == ~call[id].wait /\ call[id].result.message # "Command queue full"

AinIn(t, n) ==
    /\ h[t].cmd.type = "set_ain_mode"
    /\ PyIn(Param(t, "unit"), {UnitV, UnitC})
    /\ PyEq(h[t].current_mode, PyInt(n))

\* C26: a SetAinMode(unit, channel) that finds FUNC = 196 in the shared
\* state has, when it returns, written the unit to channel A and to channel
\* B whatever the channel asked for; it reports success only if the device
\* holds the unit on both channels, and then MODE_A = MODE_B = unit; MODE_A
\* and MODE_B change in no step of it but the one that publishes both on
\* success.
C26_Both196 ==
    /\ [](\A t \in Threads :
            (AinIn(t, 196) /\ h[t].pc = "ret") =>
                /\ Sent(t, WriteCmd("AINA", Param(t, "unit")))
                /\ Sent(t, WriteCmd("AINB", Param(t, "unit")))
                /\ h[t].result.success =>
                      /\ <<dev.aina>> = Param(t, "unit").v
                      /\ <<dev.ainb>> = Param(t, "unit").v
                      /\ get(sstate, "MODE_A") = Param(t, "unit")
                      /\ get(sstate, "MODE_B") = Param(t, "unit"))
    /\ [][\A t \in Threads :
            (/\ AinIn(t, 196)
             /\ h'[t].cmd = h[t].cmd
             /\ \/ get(sstate', "MODE_A") # get(sstate, "MODE_A")
                \/ get(sstate', "MODE_B") # get(sstate, "MODE_B"))
            => (/\ h'[t].result.success
                /\ get(sstate', "MODE_A") = Param(t, "unit")
                /\ get(sstate', "MODE_B") = Param(t, "unit"))]_vars

\* C26's case: in function 196 a SetAinMode(C, B) has failed after channel A
\* took the unit and channel B did not, with MODE_A and MODE_B not published
C26_Witness ==
    /\ AinIn(DirectThread, 196)
    /\ h[DirectThread].pc = "ret"
    /\ Param(DirectThread, "channel") = ChanB
    /\ ~h[DirectThread].result.success
    /\ dev.aina = "C"
    /\ dev.ainb = "V"
    /\ get(sstate, "MODE_B") # UnitC

\* C27: a SetAinMode(unit, channel) that finds FUNC = 195 in the shared
\* state writes the unit to channel A and never to channel B, whatever the
\* channel asked for, and on success MODE = unit.
C27_OnlyA195 ==
    \A t \in Threads :
        AinIn(t, 195) =>
            /\ ~Sent(t, WriteCmd("AINB", Param(t, "unit")))
            /\ (h[t].pc = "ret" /\ h[t].result.success) =>
                  (Sent(t, WriteCmd("AINA", Param(t, "unit")))
                     /\ get(sstate, "MODE") = Param(t, "unit"))


\* thread t is in, or has returned from, a set_current_value(value, channel,
\* mode) with a value int() takes and finds in range, a str for the channel
\* and the mode n
CurrentCall(t, n) ==
    /\ drv[t].fn = "set_current_value"
    /\ drv[t].mode = PyStr(IntText(n))
    /\ IsStr(drv[t].requested)
    /\ IntParses(drv[t].value)
    /\ CurrentInRange(int(drv[t].value))

\* the writes of a current that thread t sent in its invocation
CurrentWrites(t) ==
    { log[t][i][2] : i \in { j \in 1..Len(log[t]) :
          /\ log[t][j][1] = "write"
          /\ log[t][j][2].arg # PyNone
          /\ log[t][j][2].name \in {"CURRENT", "CURRENT:A", "CURRENT:B"} } }

\* C28: set_current_value in mode "195" rejects no channel: whatever str the
\* channel is, it goes on to write, and what it writes is CURRENT <value>,
\* never CURRENT:A or CURRENT:B.  In mode "196" it writes CURRENT:A <value>
\* for channel A and CURRENT:B <value> for channel B; any other channel is
\* rejected with nothing done on the link.
C28_ChannelByMode ==
    \A t \in Threads :
        /\ CurrentCall(t, 195) =>
              /\ drv[t].pc = "done" => log[t] # <<>>
              /\ CurrentWrites(t) \subseteq {WriteCmd("CURRENT", PyInt(int(drv[t].value)))}
              /\ drv[t].pc \in {"scv_save", "scv_verify", "done"} => CurrentWrites(t) # {}
        /\ (CurrentCall(t, 196) /\ upper(drv[t].requested) \in {ChanA, ChanB}) =>
              /\ drv[t].pc = "done" => log[t] # <<>>
              /\ CurrentWrites(t) \subseteq
                    {WriteCmd(IF upper(drv[t].requested) = ChanA
                              THEN "CURRENT:A" ELSE "CURRENT:B",
                              PyInt(int(drv[t].value)))}
              /\ drv[t].pc \in {"scv_save", "scv_verify", "done"} => CurrentWrites(t) # {}
        /\ (CurrentCall(t, 196) /\ upper(drv[t].requested) \notin {ChanA, ChanB}) =>
              /\ drv[t].pc = "done"
              /\ ~drv[t].ret
              /\ log[t] = <<>>

\* C28's case: set_current_value(2600, "C", "195") has written CURRENT 2600
\* to the device
C28_Witness ==
    /\ CurrentCall(DirectThread, 195)
    /\ drv[DirectThread].requested = PyStr(<<"C">>)
    /\ drv[DirectThread].pc = "done"
    /\ Sent(DirectThread, WriteCmd("CURRENT", PyInt(2600)))
    /\ dev.cur = 2600


\* the current the device holds under the name set_current_value wrote
Held(d, name) ==
    CASE name = "CURRENT" -> d.cur
      [] name = "CURRENT:A" -> d.cura
      [] OTHER -> d.curb

\* C29: when set_current_value comes to its verification, the current
\* command and SAVE have been sent.  With verify_writes set to on it reads
\* the value back and returns True only if the device then holds the value
\* written: any other readback, or none, gives False.  With verify_writes
\* set to off it returns True and sends nothing more.
C29_VerifyWrites ==
    [][\A t \in Threads :
         (drv[t].fn = "set_current_value" /\ drv[t].pc = "scv_verify"
            /\ drv'[t].pc = "done") =>
            LET name == CurrentName(drv[t].mode, drv[t].channel)
            IN  /\ Sent(t, WriteCmd(name, drv[t].value))
                /\ Sent(t, SaveCmd)
                /\ verify_attr = "on" =>
                      /\ log'[t] = log[t] \o CmdOps(ReadCmd(name))
                      /\ drv'[t].ret => Held(dev', name) = drv[t].value.v
                      /\ Held(dev', name) # drv[t].value.v => ~drv'[t].ret
                /\ verify_attr = "off" =>
                      /\ drv'[t].ret
                      /\ log'[t] = log[t]]_vars

\* C29's case: with verify_writes on, set_current_value has returned False
\* after CURRENT 2600, SAVE and the readback, with the device holding 2600
C29_Witness ==
    /\ verify_attr = "on"
    /\ drv[DirectThread].fn = "set_current_value"
    /\ drv[DirectThread].pc = "done"
    /\ ~drv[DirectThread].ret
    /\ Sent(DirectThread, WriteCmd("CURRENT", PyInt(2600)))
    /\ Sent(DirectThread, SaveCmd)
    /\ Sent(DirectThread, ReadCmd("CURRENT"))
    /\ dev.cur = 2600


\* the commands thread t sent in its invocation, in their order
Commands(t) ==
    LET w == SelectSeq(log[t], LAMBDA e : e[1] = "write")
    IN  [i \in 1..Len(w) |-> w[i][2]]

\* what a change_pam_function(new_mode) sends when it runs to its end
FunctionChange(new_mode) ==
    << WriteCmd("FUNCTION", new_mode), WriteCmd("IA", PyInt(0)),
       WriteCmd("IB", PyInt(0)), SaveCmd, ReadCmd("FUNCTION") >>

\* thread t called change_pam_function itself, with a valid mode
FunctionCall(t) ==
    /\ drv[t].fn = "change_pam_function"
    /\ h[t].pc = "idle"
    /\ drv[t].new_mode \in {PyInt(195), PyInt(196)}

\* C30: a change_pam_function with a valid mode sends FUNCTION <new_mode>,
\* IA 0, IB 0, SAVE and the FUNCTION query, in this order and nothing else:
\* what it has sent is at every moment the beginning of that sequence, SAVE
\* is never sent before IA 0 and IB 0, and a run that comes to its
\* verification has sent all five, whatever function the device held.
C30_ZeroedBeforeSave ==
    /\ [](\A t \in Threads :
            FunctionCall(t) =>
                /\ IsPrefix(Commands(t), FunctionChange(drv[t].new_mode))
                /\ drv[t].pc \in {"cpf_verify"} => Len(Commands(t)) = 4
                /\ (drv[t].pc = "done" /\ drv[t].ret) => Len(Commands(t)) = 5)
    /\ [][\A t \in Threads :
            (FunctionCall(t) /\ drv[t].pc = "cpf_verify" /\ log'[t] # log[t]) =>
                (drv'[t].pc = "done" /\ Commands(t)' = FunctionChange(drv[t].new_mode))]_vars

\* C30's case: change_pam_function(195) on a device in function 195 has run
\* to its end and returned True
C30_Witness ==
    /\ FunctionCall(DirectThread)
    /\ drv[DirectThread].new_mode = PyInt(195)
    /\ drv[DirectThread].pc = "done"
    /\ drv[DirectThread].ret
    /\ Commands(DirectThread) = FunctionChange(PyInt(195))
    /\ dev.func = 195


(***************************************************************************)
(* C31.  A ChangeMode whose prior FUNC was not 195 or whose new mode is    *)
(* not 196 changes no field of the shared state but FUNC and the           *)
(* transition flag; and a step of a ChangeMode that changes FUNC or any    *)
(* other data field is the publishing step of the success path, after      *)
(* which the handler only clears the flag and returns the success: a       *)
(* failed ChangeMode leaves FUNC and every other data field as they were.  *)
(***************************************************************************)
InChangeMode(t) == h[t].cmd.type = "change_mode" /\ InHandler(t)

\* `new_mode == 196 and old_mode == 195`
From195To196(t) ==
    PyEq(Param(t, "mode"), PyInt(196)) /\ PyEq(h[t].old_mode, PyInt(195))

SameBut(s1, s2, keys) ==
    /\ DOMAIN s1 = DOMAIN s2
    /\ \A k \in DOMAIN s1 \ keys : s1[k] = s2[k]

C31_ChangeModeFrame ==
    [][ \A t \in {DirectThread} : InChangeMode(t) =>
          /\ ~From195To196(t) => SameBut(sstate, sstate', {"FUNC", "IN_TRANSITION"})
          /\ ~SameBut(sstate, sstate', {"IN_TRANSITION"}) =>
                /\ h'[t].pc = "clear"
                /\ h'[t].result.success
          /\ h[t].pc = "clear" =>
                /\ h'[t].pc = "ret"
                /\ h'[t].result = h[t].result
                /\ SameBut(sstate, sstate', {"IN_TRANSITION"}) ]_vars

\* a ChangeMode that was no 195-to-196 transition has returned its success
\* and FUNC, which held another value, holds the new mode
C31_Witness ==
    /\ h[DirectThread].pc = "ret"
    /\ h[DirectThread].cmd.type = "change_mode"
    /\ h[DirectThread].result.success
    /\ ~From195To196(DirectThread)
    /\ h[DirectThread].old_mode # Param(DirectThread, "mode")
    /\ sstate["FUNC"] = Param(DirectThread, "mode")
    /\ ~sstate["IN_TRANSITION"]

(***************************************************************************)
(* C32.  A call of wait_for_transition never raises: what it hands back is *)
(* True or False.                                                          *)
(***************************************************************************)
C32_WaitNeverRaises == ms.wft \in {"none", "True", "False"}

(***************************************************************************)
(* C33.  A GetStatus never waits for a mode switch: no GetStatus sits in   *)
(* the queue while the worker is inside a ChangeMode or while a ChangeMode *)
(* is queued ahead of it.                                                  *)
(***************************************************************************)
C33_GetStatusNotHeldUp ==
    \A i \in 1..Len(queue) :
        queue[i].type = "get_status" =>
            /\ ~InChangeMode(WorkerThread)
            /\ \A j \in 1..(i - 1) : queue[j].type # "change_mode"

(***************************************************************************)
(* C34.  With the worker running, the commands the worker began are        *)
(* commands submit accepted, each begun once; a result is put on a         *)
(* response queue only by the worker, for the waiting command whose        *)
(* handler has just returned, and a response queue gets one result in      *)
(* all; and every accepted command is in the end executed, and its result  *)
(* put on its response queue if it has one.                                *)
(***************************************************************************)
StartedIds == {started[i] : i \in 1..Len(started)}

\* the handler of command id has run and returned
Executed(id) ==
    /\ id \in StartedIds
    /\ h[WorkerThread].cmd.id = id => h[WorkerThread].pc = "ret"

\* the caller of submit call id took a result from its response queue
Consumed(id) ==
    /\ call[id].wait
    /\ call[id].status = "returned"
    /\ call[id].result.message \notin {"Command timeout", "Command queue full"}

\* a result was put on the response queue of command id
Placed(id) == respq[id] # <<>> \/ Consumed(id)

C34_ExecutedExactlyOnce ==
    /\ [](/\ \A i, j \in 1..Len(started) : started[i] = started[j] => i = j
          /\ \A i \in 1..Len(started) :
                \E k \in 1..Len(AcceptedIds) : AcceptedIds[k] = started[i]
          /\ \A i, j \in 1..Len(queue) : queue[i].id = queue[j].id => i = j
          /\ \A i \in 1..Len(queue) : queue[i].id \notin StartedIds
          /\ \A id \in DOMAIN call :
                /\ Len(respq[id]) + (IF Consumed(id) THEN 1 ELSE 0) <= 1
                /\ Placed(id) => call[id].wait /\ Executed(id)
                /\ (Executed(id) /\ h[WorkerThread].cmd.id # id /\ call[id].wait)
                      => Placed(id))
    /\ [][\A id \in DOMAIN respq :
            Len(respq'[id]) > Len(respq[id]) =>
                /\ h[WorkerThread].pc = "ret"
                /\ h[WorkerThread].cmd.id = id
                /\ h'[WorkerThread].pc = "idle"
                /\ respq'[id] = <<h[WorkerThread].result>>]_vars
    /\ \A id \in 1..MaxCmds :
          (\E k \in 1..Len(AcceptedIds) : AcceptedIds[k] = id)
              ~> (Executed(id) /\ (call[id].wait => Placed(id)))

\* C34's case: two commands were accepted, the waiting one timed out at
\* its caller, and both have been executed, the result of the waiting one
\* lying on its response queue
C34_Witness ==
    /\ Len(call) = 2
    /\ \A id \in 1..2 : Executed(id)
    /\ h[WorkerThread].pc = "idle"
    /\ \E id \in 1..2 :
          /\ call[id].wait
          /\ call[id].result = TimedOut
          /\ Len(respq[id]) = 1
    /\ \E id \in 1..2 : ~call[id].wait /\ respq[id] = <<>>

(***************************************************************************)
(* C35.  A response queue changes in two ways only: the worker puts on it  *)
(* the result of the waiting command it belongs to, whose handler has just *)
(* returned, or the caller that is waiting on it takes its first result;   *)
(* and what a waiting caller is returned is the timeout or the result      *)
(* taken from its own response queue.  The late result of a command whose  *)
(* caller timed out therefore stays on that command's queue.               *)
(***************************************************************************)
C35_PrivateResponseQueue ==
    [][\A id \in DOMAIN call :
          /\ respq'[id] # respq[id] =>
                \/ /\ h[WorkerThread].pc = "ret"
                   /\ h[WorkerThread].cmd.id = id
                   /\ h[WorkerThread].cmd.wait
                   /\ respq'[id] = Append(respq[id], h[WorkerThread].result)
                   /\ call' = call
                \/ /\ call[id].status = "waiting"
                   /\ respq[id] # <<>>
                   /\ respq'[id] = Tail(respq[id])
                   /\ call'[id].result = Head(respq[id])
          /\ call'[id] # call[id] =>
                /\ call[id].status = "waiting"
                /\ call'[id].status = "returned"
                /\ \/ call'[id].result = TimedOut /\ respq[id] = <<>>
                   \/ /\ respq[id] # <<>>
                      /\ call'[id].result = Head(respq[id])
                      /\ respq'[id] = Tail(respq[id])
                /\ \A other \in DOMAIN call \ {id} : respq'[other] = respq[other]]_vars

\* C35's case: the first caller timed out and the result of its ChangeMode
\* arrived late on its own response queue, where it stays, while the second
\* caller has been returned the result of its GetStatus
C35_Witness ==
    /\ Len(call) = 2
    /\ call[1].wait /\ call[1].status = "returned" /\ call[1].result = TimedOut
    /\ Len(respq[1]) = 1
    /\ respq[1][1].message \in {"Mode changed", "Mode change failed"}
    /\ call[2].wait /\ call[2].status = "returned"
    /\ call[2].result.message = "Status retrieved"
    /\ respq[2] = <<>>

(***************************************************************************)
(* C36.  After stop() the worker leaves its loop once the handler in       *)
(* progress has returned; from the moment of the stop at most one more     *)
(* command is begun, and none once the loop is left, so that commands      *)
(* then in the queue stay there; and a waiting submit made after the stop  *)
(* returns: "Command timeout" or "Command queue full" (as stated), or, as  *)
(* amended, also the result of its own command when that command is the    *)
(* one the worker still began.                                             *)
(***************************************************************************)
Exited == h[WorkerThread].pc = "exited"

\* submit call id has returned to its caller
Returned(id) == id \in DOMAIN call /\ call[id].status = "returned"

NotServed(id) == call[id].result.message \in {"Command timeout", "Command queue full"}

\* the worker leaves, begins at most one more command, and leaves the queue
\* alone once it has left
StopsWorker ==
    /\ ~running ~> Exited
    /\ \A n \in 0..MaxStopCmds :
          [](~running /\ Len(started) = n => [](Len(started) <= n + 1))
    /\ [][Exited => (Exited' /\ started' = started
                       /\ IsPrefix(queue, queue'))]_vars

\* the statement as made: a waiting submit made after the stop is returned
\* the timeout or the full queue
C36_StopAsStated ==
    /\ StopsWorker
    /\ \A id \in 1..MaxStopCmds :
          [](~running /\ Len(call) < id =>
                [](/\ (id \in DOMAIN call /\ call[id].wait) => <>Returned(id)
                   /\ (Returned(id) /\ call[id].wait) => NotServed(id)))

\* the statement that holds: it may also be returned the result of its own
\* command, the one command begun after the stop
C36_StopServesAtMostOne ==
    /\ StopsWorker
    /\ \A id \in 1..MaxStopCmds : \A n \in 0..MaxStopCmds :
          [](~running /\ Len(call) < id /\ Len(started) = n =>
                [](/\ (id \in DOMAIN call /\ call[id].wait) => <>Returned(id)
                   /\ (Returned(id) /\ call[id].wait) =>
                         \/ NotServed(id)
                         \/ Len(started) = n + 1 /\ started[n + 1] = id))

\* C36's case: the loop is left after the stop, a command is still in the
\* queue, its waiting submitter has been returned the timeout, and a
\* command was executed before
C36_Witness ==
    /\ ~running
    /\ Exited
    /\ Len(started) >= 1
    /\ \E i \in 1..Len(queue) :
          /\ queue[i].wait
          /\ Returned(queue[i].id)
          /\ call[queue[i].id].result = TimedOut

(***************************************************************************)
(* C37.  What cmd has collected in `response` was sent by the device in    *)
(* reply to a command of the same thread, and no thread's reset of the     *)
(* input buffer discards a reply to a command of the other thread that is  *)
(* still waiting for it.                                                   *)
(***************************************************************************)
\* thread t is inside cmd, past its write
AwaitsReply(t) == ser.lk[t].pc \in {"loop", "size", "read"}

C37_ExchangesIntact ==
    /\ [](\A t \in LinkThreads :
            \A i \in 1..Len(ser.lk[t].response) : ser.lk[t].response[i].of[1] = t)
    /\ [][\A t \in LinkThreads :
            (ser.lk[t].pc = "idle" /\ ser'.lk[t].pc = "write") =>
                \A u \in LinkThreads \ {t} :
                    AwaitsReply(u) =>
                        \A i \in 1..Len(ser.inbuf) : ser.inbuf[i].of[1] # u]_vars

(***************************************************************************)
(* C38.  Once the one ChangeMode(m) of the behaviour has returned its      *)
(* success, the shared state's FUNC is m.                                  *)
(***************************************************************************)
C38_FuncStaysPublished ==
    (/\ h[WorkerThread].pc = "ret"
     /\ h[WorkerThread].cmd.type = "change_mode"
     /\ h[WorkerThread].result.success)
        => sstate["FUNC"] = Param(WorkerThread, "mode")

(***************************************************************************)
(* C39.  When a SetCurrent in mode 195 or 196 has succeeded, the field of   *)
(* the shared state that belongs to the command written on the device      *)
(* holds the value: CURRENT_A_STATUS after CURRENT:A, CURRENT_B_STATUS      *)
(* after CURRENT:B, CURRENT_STATUS after CURRENT.                          *)
(***************************************************************************)
FieldOf(name) ==
    CASE name = "CURRENT:A" -> "CURRENT_A_STATUS"
      [] name = "CURRENT:B" -> "CURRENT_B_STATUS"
      [] OTHER -> "CURRENT_STATUS"

C39_PublishesWrittenChannel ==
    \A t \in Threads :
        (/\ h[t].cmd.type = "set_current"
         /\ Param(t, "mode") \in {PyInt(195), PyInt(196)}
         /\ h[t].pc \in {"clear", "ret"}
         /\ h[t].result.success)
            => \A w \in CurrentWrites(t) : sstate[FieldOf(w.name)] = w.arg

(***************************************************************************)
(* C40.  On a device whose AIN channels started with the same unit: when   *)
(* the device is in FUNCTION 196 and no ChangeMode or SetAinMode is being  *)
(* executed, AINA and AINB carry the same unit.                            *)
(***************************************************************************)
C40_ChannelsAgreeIn196 ==
    (dev.func = 196 /\ h[DirectThread].pc \in {"idle", "ret"})
        => dev.aina = dev.ainb

=========================================================================
